---- MODULE Spec2Model ----
(***************************************************************************)
(* A model of the Phoria renderers (scripts/phoria-entity.js): the object  *)
(* depth sort, the lighting evaluator, polygon culling and the fixed-point *)
(* half-edge triangle rasterizer of the SoftwareRenderer.                  *)
(*                                                                         *)
(* Numbers.  Screen coordinates handed to drawTriangle are written in      *)
(* units of 1/32 pixel, so that Math.round(16 * x) has halves to round.    *)
(* Lighting values are exact rationals <<numerator, denominator>>.         *)
(***************************************************************************)
EXTENDS Integers, Sequences, FiniteSets, TLC

VARIABLES
    \* SoftwareRenderer: the pixel buffer and the drawTriangle calls
    data,        \* this._data: flat RGBA bytes, index 0 .. 4*W*H-1
    pending,     \* drawTriangle calls still to be made
    done,        \* drawTriangle calls made, in order
    written,     \* written[i]: the pixels <<x, y>> call done[i] wrote
    prevdata,    \* the pixel buffer before the last call
    \* Renderer.sortObjects: the scene's render list
    sortflag,    \* this.sort
    renderlist,  \* scene.renderlist: the objects (by identity), in order
    objects,     \* identity -> [sortmode, coords, averagez]
    sortcalls,   \* the number of sortObjects calls made
    \* the lighting evaluator
    lights,      \* scene.lights
    position,    \* the world position that is lit
    normal,      \* the surface normal that is lit
    normalrgb,   \* what calcNormalBrightness returned, or <<>>
    positionrgb, \* what calcPositionBrightness returned, or <<>>
    \* one object of the render list and the calls that draw it
    camera,      \* scene.camera.position
    obj,         \* the object: style, _coords, _worldcoords, _clip, edges, textures
    poly,        \* the polygon handed to renderPolygon
    ctxlog,      \* the calls made on the canvas 2D context, in order
    called,      \* the renderer method that was called, or "none"
    returned,    \* what it returned
    args,        \* the arguments of the call, where the result does not show them
    renderer     \* the renderer that draws the frames: "canvas", "software", "none"

rasterVars == <<data, pending, done, written, prevdata>>
sortVars == <<sortflag, renderlist, objects, sortcalls>>
lightVars == <<lights, position, normal, normalrgb, positionrgb>>
polyVars == <<camera, obj, poly, ctxlog, called, returned, args, renderer>>
vars == <<rasterVars, sortVars, lightVars, polyVars>>

-----------------------------------------------------------------------------
(***************************************************************************)
(* Bounds                                                                  *)
(***************************************************************************)
CanvasWidth == 3
CanvasHeight == 3
MaxPairX == 4
MaxPairY == 2
MaxObjects == 3
MaxLights == 2
MaxClipFlag == 3
MaxVertices == 4

Min2(a, b) == IF a < b THEN a ELSE b
Max2(a, b) == IF a > b THEN a ELSE b
Min3(a, b, c) == Min2(a, Min2(b, c))
Max3(a, b, c) == Max2(a, Max2(b, c))
Abs(a) == IF a < 0 THEN -a ELSE a

(***************************************************************************)
(* Exact rationals <<n, d>> in lowest terms with d > 0, standing for the   *)
(* program's floating-point numbers.                                       *)
(***************************************************************************)
RECURSIVE GCD(_, _)
GCD(a, b) == IF b = 0 THEN a ELSE GCD(b, a % b)

Rat(n, d) ==
    LET g == GCD(Abs(n), Abs(d))
        sg == IF d < 0 THEN -1 ELSE 1
    IN  <<(sg * n) \div g, (sg * d) \div g>>
RInt(n) == <<n, 1>>
RZero == <<0, 1>>
RAdd(a, b) == Rat(a[1] * b[2] + b[1] * a[2], a[2] * b[2])
RSub(a, b) == Rat(a[1] * b[2] - b[1] * a[2], a[2] * b[2])
RMul(a, b) == Rat(a[1] * b[1], a[2] * b[2])
RDiv(a, b) == Rat(a[1] * b[2], a[2] * b[1])
RNeg(a) == <<-a[1], a[2]>>
RLt(a, b) == a[1] * b[2] < b[1] * a[2]
RLe(a, b) == a[1] * b[2] <= b[1] * a[2]
RMin(a, b) == IF RLt(b, a) THEN b ELSE a
RAbs(a) == <<Abs(a[1]), a[2]>>
a \oplus b == RAdd(a, b)
a \ominus b == RSub(a, b)
a \otimes b == RMul(a, b)
a \oslash b == RDiv(a, b)
\* Math.ceil
RCeil(a) == -((-a[1]) \div a[2])
\* Math.sqrt, on the squares of rationals
ISqrt(n) == CHOOSE r \in 0 .. n : r * r = n
RSqrt(a) == <<ISqrt(a[1]), ISqrt(a[2])>>

(***************************************************************************)
(* The values a division by zero adds to the numbers: Infinity <<1, 0>>,   *)
(* -Infinity <<-1, 0>> and NaN <<0, 0>>, with the arithmetic of IEEE 754.  *)
(* Zero carries no sign: x / 0 takes the sign of x.                        *)
(***************************************************************************)
NaN == <<0, 0>>
IsNaN(a) == a = NaN
IsInfinite(a) == a[2] = 0 /\ a[1] # 0
IsFinite(a) == a[2] # 0
Sgn(n) == IF n < 0 THEN -1 ELSE IF n > 0 THEN 1 ELSE 0
FNeg(a) == <<-a[1], a[2]>>
FAbs(a) == <<Abs(a[1]), a[2]>>
FAdd(a, b) ==
    IF IsNaN(a) \/ IsNaN(b) THEN NaN
    ELSE IF IsInfinite(a) THEN (IF IsInfinite(b) /\ b # a THEN NaN ELSE a)
    ELSE IF IsInfinite(b) THEN b
    ELSE RAdd(a, b)
FSub(a, b) == FAdd(a, FNeg(b))
FMul(a, b) ==
    IF IsNaN(a) \/ IsNaN(b) THEN NaN
    ELSE IF IsInfinite(a) \/ IsInfinite(b)
    THEN (IF a[1] = 0 \/ b[1] = 0 THEN NaN ELSE <<Sgn(a[1]) * Sgn(b[1]), 0>>)
    ELSE RMul(a, b)
FDiv(a, b) ==
    IF IsNaN(a) \/ IsNaN(b) THEN NaN
    ELSE IF IsInfinite(a)
    THEN (IF IsInfinite(b) THEN NaN
          ELSE <<Sgn(a[1]) * (IF b[1] < 0 THEN -1 ELSE 1), 0>>)
    ELSE IF IsInfinite(b) THEN RZero
    ELSE IF b[1] = 0 THEN (IF a[1] = 0 THEN NaN ELSE <<Sgn(a[1]), 0>>)
    ELSE RDiv(a, b)
\* a > b; false when either is NaN
FGt(a, b) ==
    IF IsNaN(a) \/ IsNaN(b) \/ a = b THEN FALSE
    ELSE IF a = <<1, 0>> \/ b = <<-1, 0>> THEN TRUE
    ELSE IF a = <<-1, 0>> \/ b = <<1, 0>> THEN FALSE
    ELSE RLt(b, a)
\* Math.sqrt
FSqrt(a) ==
    IF IsNaN(a) \/ a[1] < 0 THEN NaN
    ELSE IF IsInfinite(a) THEN a
    ELSE RSqrt(a)

(***************************************************************************)
(* vec3 of the gl-matrix library, on vectors of rationals                  *)
(***************************************************************************)
V3(x, y, z) == <<RInt(x), RInt(y), RInt(z)>>
VSubtract(a, b) == <<RSub(a[1], b[1]), RSub(a[2], b[2]), RSub(a[3], b[3])>>
VNegate(a) == <<RNeg(a[1]), RNeg(a[2]), RNeg(a[3])>>
VDot(a, b) == RAdd(RAdd(RMul(a[1], b[1]), RMul(a[2], b[2])), RMul(a[3], b[3]))
VLength(a) == RSqrt(VDot(a, a))
\* vec3.normalize leaves a zero vector as it is
VNormalize(a) ==
    IF VDot(a, a) = RZero THEN a
    ELSE LET len == VLength(a)
         IN  <<RDiv(a[1], len), RDiv(a[2], len), RDiv(a[3], len)>>

-----------------------------------------------------------------------------
(***************************************************************************)
(* SoftwareRenderer.drawTriangle                                           *)
(***************************************************************************)

\* Math.round(16 * x) for x = n / 32: floor(n / 2 + 1/2)
Round16(n) == (n + 1) \div 2

\* v << 4 and v >> 4 on values that stay inside 32 bits
Shl4(v) == v * 16
Shr4(v) == v \div 16
Shl2(v) == v * 4

\* the fill convention: the constant of a top or left edge is incremented
FillCorrectionNone(dx, dy) == 0
FillCorrection(dx, dy) == IF dy < 0 \/ (dy = 0 /\ dx > 0) THEN 1 ELSE 0

\* the test of the inner loop
InsideTestInclusive(cx1, cx2, cx3) == cx1 >= 0 /\ cx2 >= 0 /\ cx3 >= 0
InsideTest(cx1, cx2, cx3) == cx1 > 0 /\ cx2 > 0 /\ cx3 > 0

\* a store into the image data, a Uint8ClampedArray
ToUint8Clamped(v) == IF v < 0 THEN 0 ELSE IF v > 255 THEN 255 ELSE v

\* the four stores of one pixel
WritePixel(d, offset, r, g, b) ==
    [d EXCEPT ![offset] = ToUint8Clamped(r), ![offset + 1] = ToUint8Clamped(g),
              ![offset + 2] = ToUint8Clamped(b), ![offset + 3] = 255]

\* the bounding rectangle is clamped to the canvas: Math.max( ..., 0 ) and
\* Math.min( ..., canvasWidth ) or Math.min( ..., canvasHeight )
ClampLowNone(v) == v
ClampLow(v) == Max2(v, 0)
ClampHigh(v, size) == Min2(v, size)

\* everything drawTriangle computes before its loops
TriangleSetup(c) ==
    LET x1 == Round16(c.x1)
        x2 == Round16(c.x2)
        x3 == Round16(c.x3)
        y1 == Round16(c.y1)
        y2 == Round16(c.y2)
        y3 == Round16(c.y3)
        dx12 == x1 - x2
        dx23 == x2 - x3
        dx31 == x3 - x1
        dy12 == y1 - y2
        dy23 == y2 - y3
        dy31 == y3 - y1
        xmin == ClampLow(Shr4(Min3(x1, x2, x3) + 15))
        xmax == ClampHigh(Shr4(Max3(x1, x2, x3) + 15), CanvasWidth)
        ymin == ClampLow(Shr4(Min3(y1, y2, y3) + 15))
        ymax == ClampHigh(Shr4(Max3(y1, y2, y3) + 15), CanvasHeight)
        c1 == dy12 * x1 - dx12 * y1 + FillCorrection(dx12, dy12)
        c2 == dy23 * x2 - dx23 * y2 + FillCorrection(dx23, dy23)
        c3 == dy31 * x3 - dx31 * y3 + FillCorrection(dx31, dy31)
    IN  [fdx12 |-> Shl4(dx12), fdx23 |-> Shl4(dx23), fdx31 |-> Shl4(dx31),
         fdy12 |-> Shl4(dy12), fdy23 |-> Shl4(dy23), fdy31 |-> Shl4(dy31),
         xmin |-> xmin, xmax |-> xmax, ymin |-> ymin, ymax |-> ymax,
         cy1 |-> c1 + dx12 * Shl4(ymin) - dy12 * Shl4(xmin),
         cy2 |-> c2 + dx23 * Shl4(ymin) - dy23 * Shl4(xmin),
         cy3 |-> c3 + dx31 * Shl4(ymin) - dy31 * Shl4(xmin),
         r |-> c.r, g |-> c.g, b |-> c.b]

\* the inner loop: one row, stepping the three half-edge values per pixel
RECURSIVE ScanRow(_, _, _, _, _, _, _)
ScanRow(s, k, x, y, cx1, cx2, cx3) ==
    IF ~(x < k.xmax) THEN s
    ELSE LET s1 == IF InsideTest(cx1, cx2, cx3)
                   THEN [data |-> WritePixel(s.data, Shl2(x + y * CanvasWidth),
                                             k.r, k.g, k.b),
                         written |-> s.written \cup {<<x, y>>}]
                   ELSE s
         IN  ScanRow(s1, k, x + 1, y, cx1 - k.fdy12, cx2 - k.fdy23, cx3 - k.fdy31)

\* the outer loop: the rows, stepping the three row start values
RECURSIVE ScanRows(_, _, _, _, _, _)
ScanRows(s, k, y, cy1, cy2, cy3) ==
    IF ~(y < k.ymax) THEN s
    ELSE ScanRows(ScanRow(s, k, k.xmin, y, cy1, cy2, cy3), k, y + 1,
                  cy1 + k.fdx12, cy2 + k.fdx23, cy3 + k.fdx31)

\* drawTriangle(x1, y1, x2, y2, x3, y3, r, g, b) on pixel buffer d:
\* the new buffer and the set of pixels it stored into
drawTriangle(d, c) ==
    LET k == TriangleSetup(c)
    IN  IF k.xmax <= k.xmin \/ k.ymax <= k.ymin
        THEN [data |-> d, written |-> {}]
        ELSE ScanRows([data |-> d, written |-> {}], k, k.ymin, k.cy1, k.cy2, k.cy3)

-----------------------------------------------------------------------------
(***************************************************************************)
(* The rasterizer's specification: the inputs are drawn in RasterInit,     *)
(* DrawTriangle makes the next pending call.                               *)
(***************************************************************************)
Pixels == (0 .. CanvasWidth - 1) \X (0 .. CanvasHeight - 1)
ClearData == [i \in 0 .. 4 * CanvasWidth * CanvasHeight - 1 |-> 0]

\* vertices of triangle pairs: half-pixel steps in x, whole pixels in y
PairXs == {16 * i : i \in 0 .. MaxPairX}
PairYs == {32 * j : j \in 0 .. MaxPairY}
PairPts == PairXs \X PairYs

\* vertices of single triangles: off-canvas and sub-pixel coordinates
FineXs == {-40, 0, 15, 49, 130}
FineYs == {-17, 16, 64, 143}
FinePts == FineXs \X FineYs

Colours == {<<255, 0, 0>>, <<0, 128, 255>>}

Call(p1, p2, p3, col) ==
    [x1 |-> p1[1], y1 |-> p1[2], x2 |-> p2[1], y2 |-> p2[2],
     x3 |-> p3[1], y3 |-> p3[2], r |-> col[1], g |-> col[2], b |-> col[3]]

LightIdle ==
    /\ lights = <<>>
    /\ position = <<>>
    /\ normal = <<>>
    /\ normalrgb = <<>>
    /\ positionrgb = <<>>

PolyIdle ==
    /\ camera = <<>>
    /\ obj = <<>>
    /\ poly = <<>>
    /\ ctxlog = <<>>
    /\ called = "none"
    /\ returned = "none"
    /\ args = <<>>
    /\ renderer = "none"

SortIdle ==
    /\ sortflag = TRUE
    /\ renderlist = <<>>
    /\ objects = <<>>
    /\ sortcalls = 0

RasterInit ==
    /\ SortIdle
    /\ LightIdle
    /\ PolyIdle
    /\ data = ClearData
    /\ prevdata = ClearData
    /\ done = <<>>
    /\ written = <<>>
    /\ \/ \E p, q, r, s \in PairPts :
            pending = <<Call(p, q, r, <<255, 0, 0>>), Call(q, p, s, <<0, 128, 255>>)>>
       \/ \E p, q, r \in FinePts : \E col \in Colours :
            pending = <<Call(p, q, r, col)>>

DrawTriangle ==
    /\ pending # <<>>
    /\ LET res == drawTriangle(data, Head(pending))
       IN  /\ data' = res.data
           /\ written' = Append(written, res.written)
    /\ prevdata' = data
    /\ done' = Append(done, Head(pending))
    /\ pending' = Tail(pending)
    /\ UNCHANGED <<sortVars, lightVars, polyVars>>

RasterNext == DrawTriangle

SpecRaster == RasterInit /\ [][RasterNext]_vars

-----------------------------------------------------------------------------
(***************************************************************************)
(* Properties of drawTriangle                                              *)
(***************************************************************************)
RGBA(d, p) == LET o == 4 * (p[1] + p[2] * CanvasWidth)
              IN  <<d[o], d[o + 1], d[o + 2], d[o + 3]>>

\* the vertices of a call in 28.4 fixed point
Fixed(c) == <<<<Round16(c.x1), Round16(c.y1)>>, <<Round16(c.x2), Round16(c.y2)>>,
              <<Round16(c.x3), Round16(c.y3)>>>>

CeilDiv16(v) == -((-v) \div 16)

\* the half-edge function of edge a -> b, evaluated directly at pixel p
EdgeAt(a, b, p) ==
    LET dx == a[1] - b[1]
        dy == a[2] - b[2]
    IN  dy * a[1] - dx * a[2] + dx * (16 * p[2]) - dy * (16 * p[1])

TopLeft(a, b) ==
    LET dx == a[1] - b[1]
        dy == a[2] - b[2]
    IN  dy < 0 \/ (dy = 0 /\ dx > 0)

HalfEdgeAt(a, b, p) == EdgeAt(a, b, p) + (IF TopLeft(a, b) THEN 1 ELSE 0)

InBoundingBox(v, p) ==
    /\ p[1] >= CeilDiv16(Min3(v[1][1], v[2][1], v[3][1]))
    /\ p[1] < CeilDiv16(Max3(v[1][1], v[2][1], v[3][1]))
    /\ p[2] >= CeilDiv16(Min3(v[1][2], v[2][2], v[3][2]))
    /\ p[2] < CeilDiv16(Max3(v[1][2], v[2][2], v[3][2]))

ExpectedPixels(c) ==
    LET v == Fixed(c)
    IN  {p \in Pixels : /\ InBoundingBox(v, p)
                        /\ HalfEdgeAt(v[1], v[2], p) > 0
                        /\ HalfEdgeAt(v[2], v[3], p) > 0
                        /\ HalfEdgeAt(v[3], v[1], p) > 0}

\* C1: a call writes exactly the pixels of the clamped bounding box at which
\* the three directly evaluated, fill-corrected half-edge functions are
\* strictly positive (the incremental stepping decides as the direct
\* evaluation does), each written pixel holds (r, g, b, 255) and every other
\* pixel is left as it was.
C1_DrawTriangleContract ==
    \A i \in 1 .. Len(done) :
        /\ written[i] = ExpectedPixels(done[i])
        /\ i = Len(done) =>
              \A p \in Pixels :
                  RGBA(data, p) = IF p \in written[i]
                                  THEN <<done[i].r, done[i].g, done[i].b, 255>>
                                  ELSE RGBA(prevdata, p)

\* a sub-pixel triangle that covers some but not all pixels of its box
C1_Witness ==
    /\ Len(done) = 1
    /\ done[1].x1 % 2 = 1
    /\ Cardinality(written[1]) >= 2
    /\ \E p \in Pixels : InBoundingBox(Fixed(done[1]), p) /\ p \notin written[1]

\* the pixel an index of the image data belongs to
PixelOf(i) == <<(i \div 4) % CanvasWidth, (i \div 4) \div CanvasWidth>>

\* the bounding box of a call, clamped to the canvas, holds no pixel
EmptyClampedBox(c) == \A p \in Pixels : ~InBoundingBox(Fixed(c), p)

\* C20: whatever the vertices, on the canvas or off it, every pixel the last
\* call wrote lies on the canvas, the image data keeps its size and changes
\* only at written pixels, and a call whose clamped bounding box is empty
\* leaves the image data as it was
C20_WritesInsideBuffer ==
    done # <<>> =>
        /\ written[Len(written)] \subseteq Pixels
        /\ DOMAIN data = DOMAIN prevdata
        /\ \A i \in DOMAIN data :
               data[i] # prevdata[i] => PixelOf(i) \in written[Len(written)]
        /\ EmptyClampedBox(done[Len(done)]) =>
               data = prevdata /\ written[Len(written)] = {}

\* a triangle that reaches over the left and the top of the canvas and is
\* written on the canvas only
C20_Witness ==
    /\ Len(done) = 1
    /\ done[1].x1 < 0
    /\ done[1].y1 < 0
    /\ written[1] # {}
    /\ written[1] \subseteq Pixels
    /\ <<0, 0>> \in written[1]

\* a wholly off-canvas triangle: nothing written
C20_OffCanvasWitness ==
    /\ Len(done) = 1
    /\ Max3(done[1].x1, done[1].x2, done[1].x3) < 0
    /\ Min3(done[1].y1, done[1].y2, done[1].y3) < Max3(done[1].y1, done[1].y2, done[1].y3)
    /\ data = prevdata
    /\ written[1] = {}

\* -------- two triangles sharing an edge
Rotations(v) == {v, <<v[2], v[3], v[1]>>, <<v[3], v[1], v[2]>>}

\* twice the signed area: the half-edge function of a -> b at vertex c
Orient(a, b, c) == (a[2] - b[2]) * (a[1] - c[1]) - (a[1] - b[1]) * (a[2] - c[2])

\* u and w share the edge u[1] - u[2], run through in opposite directions,
\* and have the same, non-degenerate winding (so their third vertices lie on
\* opposite sides of the shared edge)
ShareEdge(u, w) ==
    /\ u[1] # u[2]
    /\ w[1] = u[2]
    /\ w[2] = u[1]
    /\ Orient(u[1], u[2], u[3]) # 0
    /\ (Orient(u[1], u[2], u[3]) > 0) = (Orient(w[1], w[2], w[3]) > 0)
    /\ Orient(w[1], w[2], w[3]) # 0

SharedEdgePairs == {uw \in Rotations(Fixed(done[1])) \X Rotations(Fixed(done[2])) :
                      ShareEdge(uw[1], uw[2])}

\* position of a pixel centre relative to a triangle with positive Orient
InClosed(v, p) ==
    LET q == <<16 * p[1], 16 * p[2]>>
        s == IF Orient(v[1], v[2], v[3]) > 0 THEN 1 ELSE -1
    IN  /\ s * Orient(v[1], v[2], q) >= 0
        /\ s * Orient(v[2], v[3], q) >= 0
        /\ s * Orient(v[3], v[1], q) >= 0

InOpen(v, p) ==
    LET q == <<16 * p[1], 16 * p[2]>>
        s == IF Orient(v[1], v[2], v[3]) > 0 THEN 1 ELSE -1
    IN  /\ s * Orient(v[1], v[2], q) > 0
        /\ s * Orient(v[2], v[3], q) > 0
        /\ s * Orient(v[3], v[1], q) > 0

\* on the shared edge u[1] - u[2], strictly between its endpoints
OnOpenSharedEdge(u, p) ==
    LET q == <<16 * p[1], 16 * p[2]>>
    IN  /\ Orient(u[1], u[2], q) = 0
        /\ (q[1] - u[1][1]) * (q[1] - u[2][1]) + (q[2] - u[1][2]) * (q[2] - u[2][2]) < 0

WrittenOnce(p) == (p \in written[1]) /= (p \in written[2])

\* C2 as claimed: every pixel of the closed union of two edge-sharing
\* triangles of the same winding is written by exactly one of them.
C2_Original ==
    Len(done) = 2 =>
        \A uw \in SharedEdgePairs : \A p \in Pixels :
            (InClosed(uw[1], p) \/ InClosed(uw[2], p)) => WrittenOnce(p)

\* C2 amended: for two edge-sharing triangles of the same winding no pixel is
\* written by both, and when the winding is the one drawTriangle fills every
\* pixel strictly inside either triangle or on the shared edge strictly
\* between its endpoints is written by exactly one of the two.
C2_SharedEdgePartition ==
    Len(done) = 2 =>
        \A uw \in SharedEdgePairs :
            /\ written[1] \cap written[2] = {}
            /\ Orient(uw[1][1], uw[1][2], uw[1][3]) > 0 =>
                  \A p \in Pixels :
                      (InOpen(uw[1], p) \/ InOpen(uw[2], p) \/ OnOpenSharedEdge(uw[1], p))
                          => WrittenOnce(p)

\* a filled pair with a pixel centre on the open shared edge, written once
C2_Witness ==
    /\ Len(done) = 2
    /\ \E uw \in SharedEdgePairs :
          /\ Orient(uw[1][1], uw[1][2], uw[1][3]) > 0
          /\ \E p \in Pixels : OnOpenSharedEdge(uw[1], p) /\ WrittenOnce(p)
          /\ written[1] # {}
          /\ written[2] # {}

-----------------------------------------------------------------------------
(***************************************************************************)
(* Renderer.sortObjects                                                    *)
(***************************************************************************)

RECURSIVE SumSeq(_)
SumSeq(q) == IF q = <<>> THEN 0 ELSE Head(q) + SumSeq(Tail(q))

\* Phoria.Util.averageObjectZ: the average of the camera-space depths
averageObjectZ(coords) == Rat(SumSeq(coords), Len(coords))

\* what the comparator answers for two objects both marked "sorted"
CompareDepthAscending(za, zb) == IF RLt(zb, za) THEN 1 ELSE -1
CompareDepth(za, zb) == IF RLt(za, zb) THEN 1 ELSE -1

\* what the comparator answers when one of the two is not "sorted"
CompareModeUnsortedLast(amode) == IF amode = "sorted" THEN -1 ELSE 1
CompareMode(amode) == IF amode = "sorted" THEN 1 ELSE -1

\* the first loop of sortObjects
ResetAverageZKeep(objs) == objs
\* a reset that writes the objects' coordinates as well
ResetAverageZCoords(objs) ==
    [n \in DOMAIN objs |-> [objs[n] EXCEPT !.averagez = RZero, !.coords = <<0>>]]
ResetAverageZ(objs) == [n \in DOMAIN objs |-> [objs[n] EXCEPT !.averagez = RZero]]

\* sortObjectsZ(a, b) on the objects' table: its answer and the table after
\* the averages it stores
sortObjectsZ(objs, a, b) ==
    IF objs[a].sortmode = "sorted" /\ objs[b].sortmode = "sorted"
    THEN LET o1 == IF objs[a].averagez = RZero
                   THEN [objs EXCEPT ![a].averagez = averageObjectZ(objs[a].coords)]
                   ELSE objs
             o2 == IF o1[b].averagez = RZero
                   THEN [o1 EXCEPT ![b].averagez = averageObjectZ(o1[b].coords)]
                   ELSE o1
         IN  [order |-> CompareDepth(o2[a].averagez, o2[b].averagez), objs |-> o2]
    ELSE [order |-> CompareMode(objs[a].sortmode), objs |-> objs]

\* Array.prototype.sort, as a straight insertion sort: element list[i] moves
\* down past every list[j] with comparefn(list[j], element) > 0
RECURSIVE InsertDown(_, _, _)
InsertDown(st, element, j) ==
    IF j < 1 THEN [st EXCEPT !.list[1] = element]
    ELSE LET c == sortObjectsZ(st.objs, st.list[j], element)
         IN  IF c.order > 0
             THEN InsertDown([list |-> [st.list EXCEPT ![j + 1] = st.list[j]],
                              objs |-> c.objs], element, j - 1)
             ELSE [list |-> [st.list EXCEPT ![j + 1] = element], objs |-> c.objs]

RECURSIVE InsertionSort(_, _)
InsertionSort(st, i) ==
    IF i > Len(st.list) THEN st
    ELSE InsertionSort(InsertDown(st, st.list[i], i - 1), i + 1)

\* Array.prototype.sort, as a binary insertion sort: the place of
\* pivot = list[start] is searched with comparefn(pivot, list[mid]) < 0
RECURSIVE BinarySearch(_, _, _, _)
BinarySearch(objs, list, pivot, lr) ==
    IF ~(lr[1] < lr[2]) THEN [left |-> lr[1], objs |-> objs]
    ELSE LET mid == lr[1] + ((lr[2] - lr[1]) \div 2)
             c == sortObjectsZ(objs, pivot, list[mid])
         IN  IF c.order < 0
             THEN BinarySearch(c.objs, list, pivot, <<lr[1], mid>>)
             ELSE BinarySearch(c.objs, list, pivot, <<mid + 1, lr[2]>>)

RECURSIVE BinaryInsertionSort(_, _)
BinaryInsertionSort(st, start) ==
    IF start > Len(st.list) THEN st
    ELSE LET pivot == st.list[start]
             f == BinarySearch(st.objs, st.list, pivot, <<1, start>>)
             moved == [p \in 1 .. Len(st.list) |->
                          IF p = f.left THEN pivot
                          ELSE IF p > f.left /\ p <= start THEN st.list[p - 1]
                          ELSE st.list[p]]
         IN  BinaryInsertionSort([list |-> moved, objs |-> f.objs], start + 1)

SortAlgorithms == {"insertion", "binaryinsertion"}

ArraySort(st, alg) ==
    IF alg = "insertion" THEN InsertionSort(st, 2) ELSE BinaryInsertionSort(st, 2)

\* sortObjects(scene) with the engine's sort algorithm alg
sortObjects(flag, list, objs, alg) ==
    IF flag
    THEN ArraySort([list |-> list, objs |-> ResetAverageZ(objs)], alg)
    ELSE [list |-> list, objs |-> objs]

(***************************************************************************)
(* The sort's specification: SortInit draws a render list whose objects    *)
(* carry the _averagez of an earlier frame, SortObjects sorts it.          *)
(***************************************************************************)
SortModes == {"sorted", "unsorted"}
\* camera-space depths of an object's vertices
DepthLists == {<<2>>, <<1, 2>>, <<-1, 1>>, <<3, 3>>}
\* _averagez as an earlier call left it
StaleAverages == {RZero, RInt(5)}
ObjectStates == [sortmode : SortModes, coords : DepthLists, averagez : StaleAverages]

RasterIdle ==
    /\ data = ClearData
    /\ prevdata = ClearData
    /\ pending = <<>>
    /\ done = <<>>
    /\ written = <<>>

SortInit ==
    /\ RasterIdle
    /\ LightIdle
    /\ PolyIdle
    /\ sortflag \in BOOLEAN
    /\ sortcalls = 0
    /\ \E n \in 0 .. MaxObjects :
          /\ objects \in [1 .. n -> ObjectStates]
          /\ renderlist = [i \in 1 .. n |-> i]

SortObjects ==
    /\ sortcalls = 0
    /\ \E alg \in SortAlgorithms :
          LET res == sortObjects(sortflag, renderlist, objects, alg)
          IN  /\ renderlist' = res.list
              /\ objects' = res.objs
    /\ sortcalls' = sortcalls + 1
    /\ UNCHANGED <<sortflag, rasterVars, lightVars, polyVars>>

SortNext == SortObjects

SpecSort == SortInit /\ [][SortNext]_vars

\* the place of object n in the render list
Place(n) == CHOOSE i \in 1 .. Len(renderlist) : renderlist[i] = n

IsPermutation ==
    /\ Len(renderlist) = Len(objects)
    /\ \A n \in DOMAIN objects : \E i \in 1 .. Len(renderlist) : renderlist[i] = n

\* C3 as claimed: after a sort every "unsorted" object comes after every
\* "sorted" object.
C3_Original ==
    (sortcalls > 0 /\ sortflag) =>
        \A a, b \in DOMAIN objects :
            (objects[a].sortmode = "sorted" /\ objects[b].sortmode = "unsorted")
                => Place(a) < Place(b)

\* C3 amended: after a sort with sorting enabled every "unsorted" object
\* comes before every "sorted" object of the render list (it is drawn first).
C3_UnsortedFirst ==
    (sortcalls > 0 /\ sortflag) =>
        /\ IsPermutation
        /\ \A a, b \in DOMAIN objects :
              (objects[a].sortmode = "sorted" /\ objects[b].sortmode = "unsorted")
                  => Place(b) < Place(a)

\* a sorted render list that began with a "sorted" object before an
\* "unsorted" one
C3_Witness ==
    /\ sortcalls > 0
    /\ sortflag
    /\ Len(objects) >= 3
    /\ objects[1].sortmode = "sorted"
    /\ objects[2].sortmode = "unsorted"
    /\ objects[3].sortmode = "sorted"

\* C4: after a sort with sorting enabled, of two "sorted" objects with
\* different average depths (the averages of their present _coords) the one
\* with the larger average comes first, whatever the list held before and
\* whatever _averagez an earlier call left behind.
C4_FarthestFirst ==
    (sortcalls > 0 /\ sortflag) =>
        \A a, b \in DOMAIN objects :
            (/\ objects[a].sortmode = "sorted"
             /\ objects[b].sortmode = "sorted"
             /\ SumSeq(objects[a].coords) * Len(objects[b].coords)
                    > SumSeq(objects[b].coords) * Len(objects[a].coords))
                => /\ Place(a) < Place(b)
                   /\ objects[a].averagez \in {RZero, Rat(SumSeq(objects[a].coords),
                                                         Len(objects[a].coords))}
                   /\ objects[b].averagez \in {RZero, Rat(SumSeq(objects[b].coords),
                                                         Len(objects[b].coords))}

\* a list that began nearest first, with an "unsorted" object in between and
\* a left-over _averagez, and was reordered
C4_Witness ==
    /\ sortcalls > 0
    /\ sortflag
    /\ Len(objects) >= 3
    /\ objects[1].sortmode = "sorted"
    /\ objects[2].sortmode = "unsorted"
    /\ objects[3].sortmode = "sorted"
    /\ objects[1].coords = <<1, 2>>
    /\ objects[3].coords = <<3, 3>>
    /\ Place(3) < Place(1)

-----------------------------------------------------------------------------
(***************************************************************************)
(* The lighting evaluator: Renderer.calcNormalBrightness and               *)
(* Renderer.calcPositionBrightness                                         *)
(***************************************************************************)

\* DistantLight.transformToScene: the world direction is the direction negated
transformToSceneKeep(direction) == direction
transformToScene(direction) == <<RNeg(direction[1]), RNeg(direction[2]), RNeg(direction[3])>>

\* rgb[c] += brightness * light.color[c]
AddBrightnessOverwrite(rgb, brightness, light) ==
    <<RMul(brightness, light.color[1]), RMul(brightness, light.color[2]),
      RMul(brightness, light.color[3])>>
AddBrightness(rgb, brightness, light) ==
    <<RAdd(rgb[1], RMul(brightness, light.color[1])),
      RAdd(rgb[2], RMul(brightness, light.color[2])),
      RAdd(rgb[3], RMul(brightness, light.color[3]))>>

\* the switch of calcNormalBrightness
NormalAttenuationNoDistance(light, distance) == light.attenuation
NormalAttenuation(light, distance) ==
    CASE light.attenuationFactor = "linear" -> RMul(light.attenuation, distance)
      [] light.attenuationFactor = "squared" ->
             RMul(RMul(light.attenuation, distance), distance)
      [] OTHER -> light.attenuation

\* the switch of calcPositionBrightness
PositionAttenuationSwapped(light, distance) ==
    CASE light.attenuationFactor = "squared" -> RMul(light.attenuation, distance)
      [] light.attenuationFactor = "linear" ->
             RMul(RMul(light.attenuation, distance), distance)
      [] OTHER -> light.attenuation
PositionAttenuation(light, distance) ==
    CASE light.attenuationFactor = "linear" -> RMul(light.attenuation, distance)
      [] light.attenuationFactor = "squared" ->
             RMul(RMul(light.attenuation, distance), distance)
      [] OTHER -> light.attenuation

\* "if (dotVP <= 0) continue"
SkipPointLightNever(dotVP) == FALSE
SkipPointLight(dotVP) == RLe(dotVP, RZero)

\* the brightness of a point light in calcPositionBrightness
PositionPointBrightnessNoHalf(light, attenuation) ==
    RDiv(light.intensity, attenuation)
PositionPointBrightness(light, attenuation) ==
    RDiv(light.intensity, RMul(attenuation, RInt(2)))

\* the loop of calcNormalBrightness from light e on; brightness is the
\* loop's variable of that name, kept from one light to the next
RECURSIVE NormalLoop(_, _, _, _, _, _)
NormalLoop(rgb, brightness, e, pos, nrm, ls) ==
    IF e > Len(ls) THEN rgb
    ELSE LET light == ls[e]
         IN  IF light.kind = "distant"
             THEN LET br == RMul(VDot(nrm, light.worlddirection), light.intensity)
                  IN  NormalLoop(AddBrightness(rgb, br, light), br, e + 1, pos, nrm, ls)
             ELSE LET vecToLight == VSubtract(pos, light.worldposition)
                      distance == VLength(vecToLight)
                      dotVP == VDot(nrm, VNegate(VNormalize(vecToLight)))
                  IN  IF SkipPointLight(dotVP)
                      THEN NormalLoop(rgb, brightness, e + 1, pos, nrm, ls)
                      ELSE LET br == RDiv(RMul(dotVP, light.intensity),
                                          NormalAttenuation(light, distance))
                           IN  NormalLoop(AddBrightness(rgb, br, light), br,
                                          e + 1, pos, nrm, ls)

calcNormalBrightness(pos, nrm, ls) ==
    NormalLoop(<<RZero, RZero, RZero>>, RZero, 1, pos, nrm, ls)

\* the loop of calcPositionBrightness from light e on
RECURSIVE PositionLoop(_, _, _, _, _)
PositionLoop(rgb, brightness, e, pos, ls) ==
    IF e > Len(ls) THEN rgb
    ELSE LET light == ls[e]
         IN  IF light.kind = "distant"
             THEN LET br == light.intensity
                  IN  PositionLoop(AddBrightness(rgb, br, light), br, e + 1, pos, ls)
             ELSE LET vecToLight == VSubtract(pos, light.worldposition)
                      distance == VLength(vecToLight)
                      br == PositionPointBrightness(light,
                                                    PositionAttenuation(light, distance))
                  IN  PositionLoop(AddBrightness(rgb, br, light), br, e + 1, pos, ls)

calcPositionBrightness(pos, ls) ==
    PositionLoop(<<RZero, RZero, RZero>>, RZero, 1, pos, ls)

(***************************************************************************)
(* The evaluator's specification: LightInit draws a position, a normal and *)
(* a light list; the two actions evaluate them.  Point lights lie at a     *)
(* rational, non-zero distance and have a non-zero attenuation.            *)
(***************************************************************************)
LightColours == {<<RInt(1), RInt(1), RInt(1)>>, <<RInt(1), Rat(1, 2), RZero>>}
AttenuationFactors == {"none", "linear", "squared", "cubic"}

DistantLights ==
    {[kind |-> "distant", intensity |-> IF c[3] = RZero THEN Rat(1, 2) ELSE RInt(1),
      color |-> c, direction |-> d, worlddirection |-> transformToScene(d)] :
        c \in LightColours,
        d \in {V3(0, 0, 1), V3(0, 0, -1)}}

PointLights ==
    {[kind |-> "point", intensity |-> ic[1], color |-> ic[2], worldposition |-> w,
      attenuation |-> ic[3], attenuationFactor |-> f] :
        ic \in {<<RInt(1), <<RInt(1), RInt(1), RInt(1)>>, Rat(1, 10)>>,
                <<Rat(1, 2), <<RInt(1), Rat(1, 2), RZero>>, RInt(2)>>},
        w \in {V3(0, 0, -2), V3(3, 0, -4)},
        f \in AttenuationFactors}

Lights == DistantLights \cup PointLights
LightLists == UNION {[1 .. n -> Lights] : n \in 0 .. MaxLights}
Normals == {V3(0, 0, -1), V3(0, 0, 1), V3(1, 0, 0)}

LightInit ==
    /\ RasterIdle
    /\ SortIdle
    /\ PolyIdle
    /\ lights \in LightLists
    /\ position = V3(0, 0, 0)
    /\ normal \in Normals
    /\ normalrgb = <<>>
    /\ positionrgb = <<>>

CalcNormalBrightness ==
    /\ normalrgb = <<>>
    /\ normalrgb' = calcNormalBrightness(position, normal, lights)
    /\ UNCHANGED <<lights, position, normal, positionrgb, rasterVars, sortVars, polyVars>>

CalcPositionBrightness ==
    /\ positionrgb = <<>>
    /\ positionrgb' = calcPositionBrightness(position, lights)
    /\ UNCHANGED <<lights, position, normal, normalrgb, rasterVars, sortVars, polyVars>>

LightNext == CalcNormalBrightness \/ CalcPositionBrightness

SpecLight == LightInit /\ [][LightNext]_vars

(***************************************************************************)
(* Properties of the lighting evaluator                                    *)
(***************************************************************************)
Remove(ls, e) == SubSeq(ls, 1, e - 1) \o SubSeq(ls, e + 1, Len(ls))
RgbAdd(u, w) == <<RAdd(u[1], w[1]), RAdd(u[2], w[2]), RAdd(u[3], w[3])>>
RgbScale(k, c) == <<RMul(k, c[1]), RMul(k, c[2]), RMul(k, c[3])>>
RgbZero == <<RZero, RZero, RZero>>

\* the distance of a point light and dot(normal, direction to the light)
DistanceTo(light) == RSqrt(VDot(VSubtract(light.worldposition, position),
                                VSubtract(light.worldposition, position)))
DotToLight(light) ==
    RDiv(VDot(normal, VSubtract(light.worldposition, position)), DistanceTo(light))

\* C7: in calcNormalBrightness a point light with dot(normal, direction to
\* the light) <= 0 adds nothing (the result is that of the list without it);
\* in calcPositionBrightness no light is skipped: taking any light out of the
\* list lowers every channel in which that light's colour is positive.
C7_SkipOnlyInNormalLighting ==
    /\ normalrgb # <<>> =>
          \A e \in 1 .. Len(lights) :
              (lights[e].kind = "point" /\ RLe(DotToLight(lights[e]), RZero))
                  => normalrgb = calcNormalBrightness(position, normal, Remove(lights, e))
    /\ positionrgb # <<>> =>
          \A e \in 1 .. Len(lights) : \A c \in 1 .. 3 :
              RLt(RZero, lights[e].color[c])
                  => RLt(calcPositionBrightness(position, Remove(lights, e))[c],
                         positionrgb[c])

\* a point light behind the surface next to a light that does contribute
C7_Witness ==
    /\ normalrgb # <<>>
    /\ positionrgb # <<>>
    /\ Len(lights) = 2
    /\ lights[1].kind = "point"
    /\ RLt(DotToLight(lights[1]), RZero)
    /\ lights[2].kind = "distant"
    /\ RLt(RZero, normalrgb[1])

\* C8: the result for a light list is the channel-wise sum of the results for
\* any prefix of the list and the rest of it, in both evaluators.
C8_Additive ==
    \A k \in 0 .. Len(lights) :
        LET A == SubSeq(lights, 1, k)
            B == SubSeq(lights, k + 1, Len(lights))
        IN  /\ normalrgb # <<>> =>
                  normalrgb = RgbAdd(calcNormalBrightness(position, normal, A),
                                     calcNormalBrightness(position, normal, B))
            /\ positionrgb # <<>> =>
                  positionrgb = RgbAdd(calcPositionBrightness(position, A),
                                       calcPositionBrightness(position, B))

\* a distant and a point light that both contribute
C8_Witness ==
    /\ normalrgb # <<>>
    /\ positionrgb # <<>>
    /\ Len(lights) = 2
    /\ lights[1].kind = "distant"
    /\ lights[2].kind = "point"
    /\ RLt(RZero, DotToLight(lights[2]))
    /\ RLt(RZero, VDot(normal, lights[1].worlddirection))

\* the attenuation the claim states for a point light
ClaimedAttenuation(light) ==
    CASE light.attenuationFactor = "linear" ->
             RMul(light.attenuation, DistanceTo(light))
      [] light.attenuationFactor = "squared" ->
             RMul(light.attenuation, RMul(DistanceTo(light), DistanceTo(light)))
      [] OTHER -> light.attenuation

\* C10: every point light of the list adds intensity / (2 * attenuation) times
\* its colour in calcPositionBrightness and, when its dot product is positive,
\* dot * intensity / attenuation times its colour in calcNormalBrightness,
\* with attenuation = factor ("none" and unknown modes), factor * distance
\* ("linear") or factor * distance * distance ("squared"); factor 1/10,
\* "linear", distance 2 and intensity 1 give brightness dot * 5.
C10_Attenuation ==
    \A e \in 1 .. Len(lights) :
        lights[e].kind = "point" =>
            LET light == lights[e]
                att == ClaimedAttenuation(light)
                dot == DotToLight(light)
            IN  /\ positionrgb # <<>> =>
                      positionrgb =
                          RgbAdd(calcPositionBrightness(position, Remove(lights, e)),
                                 RgbScale(RDiv(light.intensity, RMul(att, RInt(2))),
                                          light.color))
                /\ (normalrgb # <<>> /\ RLt(RZero, dot)) =>
                      /\ normalrgb =
                            RgbAdd(calcNormalBrightness(position, normal, Remove(lights, e)),
                                   RgbScale(RDiv(RMul(dot, light.intensity), att),
                                            light.color))
                      /\ (/\ Len(lights) = 1
                          /\ light.attenuation = Rat(1, 10)
                          /\ light.attenuationFactor = "linear"
                          /\ DistanceTo(light) = RInt(2)
                          /\ light.intensity = RInt(1))
                             => /\ att = Rat(2, 10)
                                /\ normalrgb = RgbScale(RMul(dot, RInt(5)), light.color)

\* the example: factor 1/10, linear, distance 2, intensity 1, dot 1
C10_Witness ==
    /\ normalrgb = <<RInt(5), RInt(5), RInt(5)>>
    /\ positionrgb # <<>>
    /\ Len(lights) = 1
    /\ lights[1].kind = "point"
    /\ lights[1].attenuation = Rat(1, 10)
    /\ lights[1].attenuationFactor = "linear"
    /\ DistanceTo(lights[1]) = RInt(2)

\* C11: in calcNormalBrightness every distant light of the list, of configured
\* direction d, adds dot(normal, -d) * intensity times its colour to each
\* channel, the sign kept (a negative product is summed as it is); direction
\* (0,0,1), intensity 1, colour (1,1,1), normal (0,0,-1) give 1 on every channel.
C11_DistantLightContribution ==
    normalrgb # <<>> =>
        \A e \in 1 .. Len(lights) :
            lights[e].kind = "distant" =>
                LET light == lights[e]
                    br == RMul(VDot(normal, VNegate(light.direction)), light.intensity)
                IN  /\ normalrgb =
                          RgbAdd(calcNormalBrightness(position, normal, Remove(lights, e)),
                                 RgbScale(br, light.color))
                    /\ (/\ Len(lights) = 1
                        /\ light.direction = V3(0, 0, 1)
                        /\ light.intensity = RInt(1)
                        /\ light.color = <<RInt(1), RInt(1), RInt(1)>>
                        /\ normal = V3(0, 0, -1))
                           => normalrgb = <<RInt(1), RInt(1), RInt(1)>>
                    /\ (Len(lights) = 1 /\ RLt(br, RZero) /\ RLt(RZero, light.color[1]))
                           => RLt(normalrgb[1], RZero)

\* the example of C11, evaluated
C11_Witness ==
    /\ normalrgb = <<RInt(1), RInt(1), RInt(1)>>
    /\ Len(lights) = 1
    /\ lights[1].kind = "distant"
    /\ lights[1].direction = V3(0, 0, 1)
    /\ lights[1].intensity = RInt(1)
    /\ normal = V3(0, 0, -1)

\* what the claim of C12 states one light adds, whatever the normal
ClaimedPositionBrightness(light) ==
    IF light.kind = "distant" THEN light.intensity
    ELSE RDiv(light.intensity, RMul(ClaimedAttenuation(light), RInt(2)))

RECURSIVE ClaimedPositionSum(_, _)
ClaimedPositionSum(ls, e) ==
    IF e > Len(ls) THEN RgbZero
    ELSE RgbAdd(RgbScale(ClaimedPositionBrightness(ls[e]), ls[e].color),
                ClaimedPositionSum(ls, e + 1))

\* C12: calcPositionBrightness returns, per channel, the sum over the lights
\* of the light's colour times its intensity (distant light) or times
\* intensity / (attenuation * 2) (point light); the normal plays no part.
C12_PositionBrightness ==
    positionrgb # <<>> => positionrgb = ClaimedPositionSum(lights, 1)

\* a distant and a point light evaluated by position
C12_Witness ==
    /\ positionrgb # <<>>
    /\ Len(lights) = 2
    /\ lights[1].kind = "distant"
    /\ lights[2].kind = "point"
    /\ lights[2].attenuationFactor = "linear"
    /\ normal = V3(1, 0, 0)
    /\ positionrgb[1] = RAdd(lights[1].intensity,
                             RDiv(lights[2].intensity,
                                  RMul(RMul(lights[2].attenuation, DistanceTo(lights[2])),
                                       RInt(2))))

-----------------------------------------------------------------------------
(***************************************************************************)
(* renderPolygon of both renderers: culling and shading.  Vertex indices   *)
(* count from 1 here (from 0 in the program).                              *)
(***************************************************************************)

\* a & b on non-negative integers
RECURSIVE BitAnd(_, _)
BitAnd(a, b) ==
    IF a = 0 \/ b = 0 THEN 0
    ELSE (a % 2) * (b % 2) + 2 * BitAnd(a \div 2, b \div 2)

\* "clippoly &= clip[vertices[i]]" for every vertex, from clippoly = 1
RECURSIVE ClipLoop(_, _, _, _)
ClipLoop(acc, vertices, clip, i) ==
    IF i > Len(vertices) THEN acc
    ELSE ClipLoop(BitAnd(acc, clip[vertices[i]]), vertices, clip, i + 1)

clippoly(vertices, clip) == ClipLoop(1, vertices, clip, 1)

\* hidden surface removal - viewer vector to surface normal
HiddenSurfaceFacingAway(o, pl, pos) ==
    ~o.style.doublesided /\ RLt(o.style.hiddenangle, VDot(pos, pl.worldnormal))
HiddenSurfaceInclusive(o, pl, pos) ==
    ~o.style.doublesided /\ RLe(VDot(pos, pl.worldnormal), o.style.hiddenangle)
HiddenSurface(o, pl, pos) ==
    ~o.style.doublesided /\ RLt(VDot(pos, pl.worldnormal), o.style.hiddenangle)

\* null and undefined; a texture index or a sprite that is present is <<value>>
Null == <<>>

\* color = poly.color ? poly.color : obj.style.color
PolyColor(o, pl) == IF pl.color # Null THEN pl.color ELSE o.style.color

\* Phoria.Util.averagePolyVertex: the centroid of the polygon's world vertices
RECURSIVE SumVertices(_, _, _)
SumVertices(vertices, worldcoords, i) ==
    IF i > Len(vertices) THEN <<RZero, RZero, RZero>>
    ELSE LET w == worldcoords[vertices[i]]
             rest == SumVertices(vertices, worldcoords, i + 1)
         IN  <<RAdd(w[1], rest[1]), RAdd(w[2], rest[2]), RAdd(w[3], rest[3])>>

averagePolyVertex(vertices, worldcoords) ==
    LET sum == SumVertices(vertices, worldcoords, 1)
        n == RInt(Len(vertices))
    IN  <<RDiv(sum[1], n), RDiv(sum[2], n), RDiv(sum[3], n)>>

\* SoftwareRenderer: Math.ceil(Math.min(rgb[c] * color[c], 255))
SoftwareChannel(brightness, colour) ==
    RCeil(RMin(RMul(brightness, RInt(colour)), RInt(255)))

\* CanvasRenderer: Math.min(Math.ceil(rgb[c] * color[c]), 255)
CanvasChannel(brightness, colour) ==
    Min2(RCeil(RMul(brightness, RInt(colour))), 255)

\* the brightness of a polygon in "lightsource" shading
PolygonBrightness(o, pl, ls) ==
    calcNormalBrightness(averagePolyVertex(pl.vertices, o.worldcoords), pl.worldnormal, ls)

\* SoftwareRenderer.renderPolygon: the switch on obj.style.shademode
SoftwareLit(rgb, color) ==
    <<SoftwareChannel(rgb[1], color[1]), SoftwareChannel(rgb[2], color[2]),
      SoftwareChannel(rgb[3], color[3])>>

SoftwareShade(o, pl, ls) ==
    CASE o.style.shademode = "plain" -> PolyColor(o, pl)
      [] o.style.shademode = "lightsource" ->
             SoftwareLit(PolygonBrightness(o, pl, ls), PolyColor(o, pl))

\* the drawTriangle call on three vertices of the polygon
TriangleCall(o, pl, a, b, c, rgb) ==
    LET pa == o.coords[pl.vertices[a]]
        pb == o.coords[pl.vertices[b]]
        pc == o.coords[pl.vertices[c]]
    IN  Call(<<pa.x, pa.y>>, <<pb.x, pb.y>>, <<pc.x, pc.y>>, rgb)

TriangleCallsFan(o, pl, rgb) ==
    <<TriangleCall(o, pl, 3, 2, 1, rgb)>> \o
    (IF Len(pl.vertices) = 4 THEN <<TriangleCall(o, pl, 1, 3, 4, rgb)>> ELSE <<>>)
\* SoftwareRenderer.renderPolygon: its return value and its drawTriangle calls
TriangleCalls(o, pl, rgb) ==
    <<TriangleCall(o, pl, 3, 2, 1, rgb)>> \o
    (IF Len(pl.vertices) = 4 THEN <<TriangleCall(o, pl, 1, 4, 3, rgb)>> ELSE <<>>)

softwareRenderPolygon(o, pl, pos, ls) ==
    IF clippoly(pl.vertices, o.clip) # 0 THEN [ret |-> FALSE, calls |-> <<>>]
    ELSE IF HiddenSurface(o, pl, pos) THEN [ret |-> FALSE, calls |-> <<>>]
    ELSE [ret |-> TRUE, calls |-> TriangleCalls(o, pl, SoftwareShade(o, pl, ls))]

\* the drawTriangle calls of a list, made in order
RECURSIVE DrawAll(_, _)
DrawNext(st, res) ==
    [data |-> res.data, prevdata |-> st.data, written |-> Append(st.written, res.written)]

DrawAll(st, calls) ==
    IF calls = <<>> THEN st
    ELSE DrawAll(DrawNext(st, drawTriangle(st.data, Head(calls))), Tail(calls))

-----------------------------------------------------------------------------
(***************************************************************************)
(* Renderer.inflatePolygon and Renderer.intersection, on polygons whose    *)
(* edges have a rational length                                            *)
(***************************************************************************)

\* coords[v][0], coords[v][1] in pixels
ScreenXY(coords, v) == <<Rat(coords[v].x, 32), Rat(coords[v].y, 32)>>

\* the two ends of the edge from vertex i, moved half a unit along its normal
OffsetEdge(p1, p2, dx, dy) ==
    <<[x |-> FAdd(p1[1], dx), y |-> FAdd(p1[2], dy)],
      [x |-> FAdd(p2[1], dx), y |-> FAdd(p2[2], dy)]>>

\* dx /= len, dy /= len, then dx *= 0.5, dy *= 0.5
HalfNormal(p1, p2, dx, dy, len) ==
    OffsetEdge(p1, p2, FMul(FDiv(dx, len), Rat(1, 2)), FMul(FDiv(dy, len), Rat(1, 2)))

OutwardNormal(p1, p2, dx, dy) ==
    HalfNormal(p1, p2, dx, dy, FSqrt(FAdd(FMul(dx, dx), FMul(dy, dy))))

ParallelEdge(vertices, coords, i) ==
    LET p1 == ScreenXY(coords, vertices[i])
        p2 == IF i < Len(vertices) THEN ScreenXY(coords, vertices[i + 1])
                                   ELSE ScreenXY(coords, vertices[1])
    IN  OutwardNormal(p1, p2, FSub(p2[2], p1[2]), FNeg(FSub(p2[1], p1[1])))

RECURSIVE ParallelEdges(_, _, _)
ParallelEdges(vertices, coords, i) ==
    IF i > Len(vertices) THEN <<>>
    ELSE ParallelEdge(vertices, coords, i) \o ParallelEdges(vertices, coords, i + 1)

PointAt(line0v0, line0v1, t) ==
    <<FAdd(line0v0.x, FMul(t, FSub(line0v1.x, line0v0.x))),
      FAdd(line0v0.y, FMul(t, FSub(line0v1.y, line0v0.y)))>>

LineParameter(a1, b1, c1, a2, b2, c2) ==
    FDiv(FSub(FMul(b1, c2), FMul(b2, c1)), FSub(FMul(a2, b1), FMul(a1, b2)))

intersection(line0v0, line0v1, line1v0, line1v1) ==
    PointAt(line0v0, line0v1,
            LineParameter(FSub(line0v1.x, line0v0.x), FSub(line1v0.x, line1v1.x),
                          FSub(line1v0.x, line0v0.x), FSub(line0v1.y, line0v0.y),
                          FSub(line1v0.y, line1v1.y), FSub(line1v0.y, line0v0.y)))

\* reset to the original coordinates when the vertex jumps towards infinity
ResetFarVertex(vec, orig) ==
    IF \/ FGt(FAbs(FSub(vec[1], orig[1])), Rat(3, 2))
       \/ FGt(FAbs(FSub(vec[2], orig[2])), Rat(3, 2))
    THEN orig
    ELSE vec

EdgeIntersection(pedges, a, b) ==
    intersection(pedges[a * 2 + 1], pedges[a * 2 + 2], pedges[b * 2 + 1], pedges[b * 2 + 2])

InflatedVertex(vertices, coords, pedges, i) ==
    ResetFarVertex(IF i = 1 THEN EdgeIntersection(pedges, Len(vertices) - 1, 0)
                            ELSE EdgeIntersection(pedges, i - 2, i - 1),
                   ScreenXY(coords, vertices[i]))

InflatedVertices(vertices, coords, pedges) ==
    [i \in 1 .. Len(vertices) |-> InflatedVertex(vertices, coords, pedges, i)]

inflatePolygon(vertices, coords) ==
    InflatedVertices(vertices, coords, ParallelEdges(vertices, coords, 1))

-----------------------------------------------------------------------------
(***************************************************************************)
(* CanvasRenderer.renderPolygon, renderEdge and renderPoint: the calls     *)
(* they make on the 2D context, as a list                                  *)
(***************************************************************************)

\* CanvasRenderer.renderPolygon: the switch on obj.style.shademode
CanvasLit(rgb, color) ==
    <<CanvasChannel(rgb[1], color[1]), CanvasChannel(rgb[2], color[2]),
      CanvasChannel(rgb[3], color[3])>>

LitShade(rgb, color) == [fillStyle |-> CanvasLit(rgb, color), rgb |-> rgb]

CanvasShade(o, pl, ls) ==
    CASE o.style.shademode = "plain" ->
             [fillStyle |-> IF pl.texture = Null THEN PolyColor(o, pl) ELSE Null,
              rgb |-> Null]
      [] o.style.shademode = "lightsource" ->
             LitShade(PolygonBrightness(o, pl, ls), PolyColor(o, pl))
      [] OTHER -> [fillStyle |-> Null, rgb |-> Null]

\* beginPath, moveTo the first point, lineTo the others, closePath
PathOf(pts) ==
    <<<<"beginPath">>, <<"moveTo", pts[1][1], pts[1][2]>>>> \o
    [i \in 1 .. Len(pts) - 1 |-> <<"lineTo", pts[i + 1][1], pts[i + 1][2]>>] \o
    <<<<"closePath">>>>

\* the context transformation matrix of a textured triangle
TextureTransform(x0, y0, x1, y1, x2, y2, sx0, sy0, sx1, sy1, sx2, sy2, denom) ==
    <<"transform",
      \* m11, m12
      RNeg((((sy0 \otimes (x2 \ominus x1)) \ominus (sy1 \otimes x2))
            \oplus (sy2 \otimes x1)) \oplus ((sy1 \ominus sy2) \otimes x0)) \otimes denom,
      ((((sy1 \otimes y2) \oplus (sy0 \otimes (y1 \ominus y2)))
        \ominus (sy2 \otimes y1)) \oplus ((sy2 \ominus sy1) \otimes y0)) \otimes denom,
      \* m21, m22
      ((((sx0 \otimes (x2 \ominus x1)) \ominus (sx1 \otimes x2))
        \oplus (sx2 \otimes x1)) \oplus ((sx1 \ominus sx2) \otimes x0)) \otimes denom,
      RNeg((((sx1 \otimes y2) \oplus (sx0 \otimes (y1 \ominus y2)))
            \ominus (sx2 \otimes y1)) \oplus ((sx2 \ominus sx1) \otimes y0)) \otimes denom,
      \* dx, dy
      (((sx0 \otimes ((sy2 \otimes x1) \ominus (sy1 \otimes x2)))
        \oplus (sy0 \otimes ((sx1 \otimes x2) \ominus (sx2 \otimes x1))))
       \oplus (((sx2 \otimes sy1) \ominus (sx1 \otimes sy2)) \otimes x0)) \otimes denom,
      (((sx0 \otimes ((sy2 \otimes y1) \ominus (sy1 \otimes y2)))
        \oplus (sy0 \otimes ((sx1 \otimes y2) \ominus (sx2 \otimes y1))))
       \oplus (((sx2 \otimes sy1) \ominus (sx1 \otimes sy2)) \otimes y0)) \otimes denom>>

\* fRenderTriangle(vs, sx0, sy0, sx1, sy1, sx2, sy2)
fRenderTriangle(vs, bitmap, sx0, sy0, sx1, sy1, sx2, sy2) ==
    PathOf(vs) \o
    <<<<"clip">>,
      TextureTransform(vs[1][1], vs[1][2], vs[2][1], vs[2][2], vs[3][1], vs[3][2],
                       sx0, sy0, sx1, sy1, sx2, sy2,
                       RInt(1) \oslash
                       ((((sx0 \otimes (sy2 \ominus sy1)) \ominus (sx1 \otimes sy2))
                         \oplus (sx2 \otimes sy1)) \oplus ((sx1 \ominus sx2) \otimes sy0))),
      <<"drawImage", bitmap, RZero, RZero>>>>

\* Number.toFixed(3)
ToFixed3(a) == Rat((a[1] * 2000 + a[2]) \div (2 * a[2]), 1000)

\* the "rgba(...)" fill style that lights a textured polygon
ClampAlpha(alpha) == IF RLt(RInt(1), alpha) THEN RInt(1) ELSE alpha

TextureOverlayStyle(shade) ==
    <<"fillStyle", "rgba", shade.fillStyle,
      ToFixed3(RInt(1) \ominus
               ClampAlpha(((shade.rgb[1] \otimes Rat(3, 10)) \oplus
                           (shade.rgb[2] \otimes Rat(6, 10))) \oplus
                          (shade.rgb[3] \otimes Rat(1, 10))))>>

\* the textured branch of renderPolygon
TexturedCalls(pl, shade, bitmap, bw, bh, inflatedVertices) ==
    (IF shade.fillStyle # Null THEN <<TextureOverlayStyle(shade)>> ELSE <<>>) \o
    (IF Len(pl.vertices) = 3
     THEN fRenderTriangle(inflatedVertices, bitmap, RZero, RZero, bw, RZero, bw, bh) \o
          (IF shade.fillStyle # Null THEN <<<<"fill">>>> ELSE <<>>)
     ELSE IF Len(pl.vertices) = 4
     THEN <<<<"save">>>> \o
          fRenderTriangle(SubSeq(inflatedVertices, 1, 3), bitmap,
                          RZero, RZero, bw, RZero, bw, bh) \o
          <<<<"restore">>, <<"save">>>> \o
          fRenderTriangle(<<inflatedVertices[3], inflatedVertices[4],
                            inflatedVertices[1]>>, bitmap,
                          bw, bh, RZero, bh, RZero, RZero) \o
          <<<<"restore">>>> \o
          (IF shade.fillStyle # Null
           THEN PathOf(inflatedVertices) \o <<<<"fill">>>>
           ELSE <<>>)
     ELSE <<>>)

\* obj.textures[poly.texture] is undefined
MissingBitmap(o, pl) == pl.texture[1] \notin DOMAIN o.textures

\* reading bitmap.width of an undefined bitmap raises a TypeError; only the
\* three and four vertex branches read it
BitmapTypeError(o, pl) ==
    pl.texture # Null /\ MissingBitmap(o, pl) /\ Len(pl.vertices) \in {3, 4}

TexturedPolygon(o, pl, shade) ==
    IF MissingBitmap(o, pl)
    THEN (IF shade.fillStyle # Null THEN <<TextureOverlayStyle(shade)>> ELSE <<>>) \o
         (IF Len(pl.vertices) = 4 THEN <<<<"save">>>> ELSE <<>>)
    ELSE TexturedCalls(pl, shade, o.textures[pl.texture[1]],
                       RInt(o.textures[pl.texture[1]].width),
                       RInt(o.textures[pl.texture[1]].height),
                       inflatePolygon(pl.vertices, o.coords))

FillModeCallsOneFill(fillmode, fillStyle) ==
    IF fillmode = "hiddenline" THEN <<<<"strokeStyle", "rgb", fillStyle>>, <<"stroke">>>>
    ELSE <<<<"fillStyle", "rgb", fillStyle>>, <<"fill">>>>
\* the switch on obj.style.fillmode
FillModeCalls(fillmode, fillStyle) ==
    CASE fillmode = "fill" -> <<<<"fillStyle", "rgb", fillStyle>>, <<"fill">>>>
      [] fillmode = "filltwice" ->
             <<<<"fillStyle", "rgb", fillStyle>>, <<"fill">>, <<"fill">>>>
      [] fillmode = "inflate" -> <<<<"fillStyle", "rgb", fillStyle>>, <<"fill">>>>
      [] fillmode = "fillstroke" ->
             <<<<"fillStyle", "rgb", fillStyle>>, <<"fill">>,
               <<"strokeStyle", "rgb", fillStyle>>, <<"stroke">>>>
      [] fillmode = "hiddenline" -> <<<<"strokeStyle", "rgb", fillStyle>>, <<"stroke">>>>
      [] OTHER -> <<>>

\* the solid fill branch of renderPolygon
UntexturedPolygon(o, pl, shade) ==
    (IF o.style.fillmode = "inflate"
     THEN PathOf(inflatePolygon(pl.vertices, o.coords))
     ELSE PathOf([i \in 1 .. Len(pl.vertices) |-> ScreenXY(o.coords, pl.vertices[i])]))
    \o FillModeCalls(o.style.fillmode, shade.fillStyle)

\* CanvasRenderer.renderPolygon(ctx, obj, poly, position, lights)
canvasRenderPolygon(o, pl, pos, ls) ==
    IF clippoly(pl.vertices, o.clip) # 0 THEN <<>>
    ELSE IF HiddenSurface(o, pl, pos) THEN <<>>
    ELSE <<<<"save">>>> \o
         (IF pl.texture # Null THEN TexturedPolygon(o, pl, CanvasShade(o, pl, ls))
                                 ELSE UntexturedPolygon(o, pl, CanvasShade(o, pl, ls))) \o
         (IF BitmapTypeError(o, pl) THEN <<>> ELSE <<<<"restore">>>>)

\* how the call of CanvasRenderer.renderPolygon ends
canvasRenderPolygonOutcome(o, pl, pos) ==
    IF clippoly(pl.vertices, o.clip) # 0 THEN "undefined"
    ELSE IF HiddenSurface(o, pl, pos) THEN "undefined"
    ELSE IF BitmapTypeError(o, pl) THEN "TypeError"
    ELSE "undefined"

\* the "rgb(...)" style of a lit point or edge
PositionStyle(o, pos, ls) == CanvasLit(calcPositionBrightness(pos, ls), o.style.color)

\* CanvasRenderer.renderPoint(ctx, obj, coord, index, lights)
renderPoint(o, index, ls) ==
    IF o.clip[index] # 0 THEN <<>>
    ELSE LET coord == ScreenXY(o.coords, index)
             w == IF o.style.linescale # RZero
                  THEN (o.style.linewidth \otimes o.style.linescale) \oslash
                       (o.coords[index].w \oslash RInt(16))
                  ELSE o.style.linewidth
             disc == <<<<"beginPath">>, <<"arc", coord[1], coord[2], w>>,
                       <<"closePath">>, <<"fill">>>>
         IN  CASE o.style.shademode = "plain" -> disc
               [] o.style.shademode = "sprite" ->
                      IF o.style.sprite # Null
                      THEN <<<<"drawImage", o.style.sprite[1], coord[1] \ominus w,
                               coord[2] \ominus w, w \oplus w, w \oplus w>>>>
                      ELSE <<>>
               [] o.style.shademode = "lightsource" ->
                      <<<<"fillStyle", "rgb",
                          PositionStyle(o, o.worldcoords[index], ls)>>>> \o disc
               [] OTHER -> <<>>

\* CanvasRenderer.renderEdge(ctx, obj, edge, lights)
renderEdge(o, edge, ls) ==
    IF BitAnd(o.clip[edge.a], o.clip[edge.b]) # 0 THEN <<>>
    ELSE LET a == ScreenXY(o.coords, edge.a)
             b == ScreenXY(o.coords, edge.b)
             width == IF o.style.linescale # RZero
                      THEN <<<<"lineWidth",
                               (o.style.linewidth \otimes o.style.linescale) \oslash
                               (((o.coords[edge.a].w \oplus o.coords[edge.b].w)
                                 \otimes Rat(1, 2)) \oslash RInt(32))>>>>
                      ELSE <<>>
             edgea == o.worldcoords[edge.a]
             edgeb == o.worldcoords[edge.b]
             mid == <<(edgea[1] \oplus edgeb[1]) \otimes Rat(1, 2),
                      (edgea[2] \oplus edgeb[2]) \otimes Rat(1, 2),
                      (edgea[3] \oplus edgeb[3]) \otimes Rat(1, 2)>>
         IN  width \o
             (IF o.style.shademode = "lightsource"
              THEN <<<<"beginPath">>, <<"strokeStyle", "rgb", PositionStyle(o, mid, ls)>>,
                     <<"moveTo", a[1], a[2]>>, <<"lineTo", b[1], b[2]>>,
                     <<"closePath">>, <<"stroke">>>>
              ELSE <<<<"moveTo", a[1], a[2]>>, <<"lineTo", b[1], b[2]>>>>)

-----------------------------------------------------------------------------
(***************************************************************************)
(* The renderers' specification.  PolyInit draws one object of the render  *)
(* list with its style, buffers and clip flags, one of its polygons, the   *)
(* camera position and the lights; each action is one call of a renderer   *)
(* on it, dispatched on style.drawmode as render() does.                   *)
(***************************************************************************)

\* Phoria.Entity: the default rendering style
DefaultStyle ==
    [color |-> <<128, 128, 128>>, drawmode |-> "solid", shademode |-> "lightsource",
     sortmode |-> "sorted", fillmode |-> "inflate", linewidth |-> RInt(1),
     linescale |-> RZero, hiddenangle |-> RZero, doublesided |-> FALSE, sprite |-> Null]

\* obj._coords: x and y in 1/32 pixel, w the perspective divisor; every edge of
\* the polygons below has a rational length
ScreenCoords ==
    <<[x |-> 0, y |-> 0, w |-> RInt(2)], [x |-> 64, y |-> 0, w |-> RInt(4)],
      [x |-> 64, y |-> 48, w |-> RInt(4)], [x |-> 0, y |-> 96, w |-> RInt(8)],
      [x |-> -64, y |-> 48, w |-> RInt(8)]>>

\* obj._worldcoords of a solid object: a convex pentagon in the plane z = 0
SolidWorldCoords == <<V3(-2, 6, 0), V3(-5, -1, 0), V3(7, -5, 0), V3(6, 0, 0), V3(4, 5, 0)>>

\* obj._worldcoords of a point or wireframe object: points along the z axis
LineWorldCoords == <<V3(0, 0, 0), V3(0, 0, -8), V3(0, 0, -4), V3(0, 0, 2), V3(0, 0, 4)>>

Textures == <<[width |-> 2, height |-> 2]>>
Edges == <<[a |-> 1, b |-> 2], [a |-> 2, b |-> 3]>>
NoClip == [v \in 1 .. Len(ScreenCoords) |-> 0]

\* the clip flags of the vertices the polygons use; the fifth vertex is inside
ClipFlags ==
    {[v \in 1 .. Len(ScreenCoords) |-> IF v <= 4 THEN c[v] ELSE 0] :
        c \in [1 .. 4 -> 0 .. MaxClipFlag]}

Entity(style, worldcoords, clip) ==
    [style |-> style, coords |-> ScreenCoords, worldcoords |-> worldcoords,
     clip |-> clip, textures |-> Textures, edges |-> Edges]

Polygon(vertices, color, texture, worldnormal) ==
    [vertices |-> vertices, color |-> color, texture |-> texture,
     worldnormal |-> worldnormal]

VertexLists == {<<1, 2, 3>>, <<3, 2, 1>>, <<1, 2, 3, 4>>, <<4, 3, 2, 1>>, <<1, 2, 3, 4, 5>>}
CameraPositions == {V3(0, 0, -2), V3(0, 0, 1), V3(0, 2, 0)}
FaceNormals == {V3(0, 0, -1), V3(0, 0, 1)}
HiddenAngles == {RZero, RInt(-1)}
FillModes == {"fill", "filltwice", "inflate", "fillstroke", "hiddenline"}

\* the lights of a scene: the distant lights, and point lights over the origin
PolyLights ==
    DistantLights \cup
    {l \in PointLights : l.worldposition = V3(0, 0, -2) /\
                         l.attenuationFactor \in {"none", "linear"}}
PolyLightLists == UNION {[1 .. n -> PolyLights] : n \in 0 .. MaxLights}

\* polygons with any clip flags, in front of the camera and behind it
ClippingInit ==
    /\ lights = <<>>
    /\ camera \in {V3(0, 0, -2), V3(0, 0, 1)}
    /\ \E clip \in ClipFlags, doublesided \in BOOLEAN :
         obj = Entity([DefaultStyle EXCEPT !.shademode = "plain",
                                           !.doublesided = doublesided],
                      SolidWorldCoords, clip)
    /\ \E vertices \in {<<1, 2, 3>>, <<3, 2, 1>>, <<1, 2, 3, 4>>} :
         poly = Polygon(vertices, Null, Null, V3(0, 0, -1))

\* polygons at every angle to the camera
HiddenSurfaceInit ==
    /\ lights = <<>>
    /\ camera \in CameraPositions
    /\ \E clip \in {NoClip, [NoClip EXCEPT ![1] = 1, ![2] = 2]},
          doublesided \in BOOLEAN, hiddenangle \in HiddenAngles :
         obj = Entity([DefaultStyle EXCEPT !.shademode = "plain",
                                           !.doublesided = doublesided,
                                           !.hiddenangle = hiddenangle],
                      SolidWorldCoords, clip)
    /\ \E vertices \in {<<1, 2, 3>>, <<3, 2, 1>>, <<1, 2, 3, 4>>},
          worldnormal \in FaceNormals :
         poly = Polygon(vertices, Null, Null, worldnormal)

\* lit polygons of a double-sided object
ShadingInit ==
    /\ lights \in PolyLightLists
    /\ camera = V3(0, 0, -2)
    /\ obj = Entity([DefaultStyle EXCEPT !.doublesided = TRUE], SolidWorldCoords, NoClip)
    /\ \E vertices \in {<<3, 2, 1>>, <<1, 2, 3, 4>>, <<1, 2, 3, 4, 5>>},
          color \in {Null, <<255, 64, 0>>}, texture \in {Null, <<1>>},
          worldnormal \in FaceNormals :
         poly = Polygon(vertices, color, texture, worldnormal)

\* every fill mode and shade mode, textured (texture 2 is not loaded) and not
FillModeInit ==
    /\ \E l \in DistantLights : lights = <<l>>
    /\ camera = V3(0, 0, -2)
    /\ \E fillmode \in FillModes, shademode \in {"plain", "lightsource"} :
         obj = Entity([DefaultStyle EXCEPT !.fillmode = fillmode,
                                           !.shademode = shademode],
                      SolidWorldCoords, NoClip)
    /\ \E vertices \in VertexLists, texture \in {Null, <<1>>, <<2>>} :
         poly = Polygon(vertices, Null, texture, V3(0, 0, -1))

\* point and wireframe objects
PointEdgeInit ==
    /\ camera = V3(0, 0, -2)
    /\ poly = Null
    /\ \E drawmode \in {"point", "wireframe"},
          shademode \in {"plain", "sprite", "lightsource"},
          sprite \in {Null, <<"sprite">>},
          linescale \in {RZero, Rat(1, 2)},
          clip \in {NoClip, [NoClip EXCEPT ![1] = 1, ![2] = 2, ![3] = 3]} :
         /\ shademode = "sprite" => drawmode = "point"
         /\ sprite # Null => shademode = "sprite"
         /\ obj = Entity([DefaultStyle EXCEPT !.drawmode = drawmode,
                                              !.shademode = shademode,
                                              !.sprite = sprite,
                                              !.linescale = linescale],
                         LineWorldCoords, clip)
         /\ IF shademode = "lightsource" THEN lights \in PolyLightLists
                                         ELSE lights = <<>>

\* the corners of axis-aligned quads, in 1/32 pixel: on the canvas and
\* over its edges, on whole pixels and between them
QuadXs == {-32, 0, 16, 64, 96}
QuadYs == {0, 32, 64, 112}

QuadCoords(x0, y0, x1, y1) ==
    <<[x |-> x0, y |-> y0, w |-> RInt(2)], [x |-> x1, y |-> y0, w |-> RInt(2)],
      [x |-> x1, y |-> y1, w |-> RInt(2)], [x |-> x0, y |-> y1, w |-> RInt(2)],
      [x |-> 0, y |-> 0, w |-> RInt(2)]>>

\* the four corners in order, from any corner and in either direction
QuadVertexLists ==
    {<<1, 2, 3, 4>>, <<2, 3, 4, 1>>, <<3, 4, 1, 2>>, <<4, 1, 2, 3>>,
     <<4, 3, 2, 1>>, <<3, 2, 1, 4>>, <<2, 1, 4, 3>>, <<1, 4, 3, 2>>}

\* one axis-aligned quad facing the camera, plain shading
QuadInit ==
    /\ lights = <<>>
    /\ camera = V3(0, 0, -2)
    /\ \E x0, x1 \in QuadXs, y0, y1 \in QuadYs :
         /\ x0 < x1
         /\ y0 < y1
         /\ obj = [Entity([DefaultStyle EXCEPT !.shademode = "plain",
                                               !.fillmode = "fill"],
                          SolidWorldCoords, NoClip)
                      EXCEPT !.coords = QuadCoords(x0, y0, x1, y1)]
    /\ \E vertices \in QuadVertexLists, color \in {Null, <<255, 64, 0>>} :
         poly = Polygon(vertices, color, Null, V3(0, 0, -1))

PolyInit ==
    /\ SortIdle
    /\ RasterIdle
    /\ position = <<>>
    /\ normal = <<>>
    /\ normalrgb = <<>>
    /\ positionrgb = <<>>
    /\ ctxlog = <<>>
    /\ called = "none"
    /\ returned = "none"
    /\ args = <<>>
    /\ renderer = "none"
    /\ \/ ClippingInit
       \/ HiddenSurfaceInit
       \/ ShadingInit
       \/ FillModeInit
       \/ PointEdgeInit
       \/ QuadInit

\* CanvasRenderer.render, case "solid": one renderPolygon call
CanvasRenderPolygon ==
    /\ called = "none"
    /\ obj.style.drawmode = "solid"
    /\ ctxlog' = canvasRenderPolygon(obj, poly, camera, lights)
    /\ called' = "CanvasRenderer.renderPolygon"
    /\ returned' = canvasRenderPolygonOutcome(obj, poly, camera)
    /\ UNCHANGED <<camera, obj, poly, args, renderer, rasterVars, sortVars, lightVars>>

\* SoftwareRenderer.render, case "solid": one renderPolygon call
SoftwareRenderPolygon ==
    /\ called = "none"
    /\ obj.style.drawmode = "solid"
    /\ \E res \in {softwareRenderPolygon(obj, poly, camera, lights)} :
         /\ \E st \in {DrawAll([data |-> data, prevdata |-> prevdata,
                                 written |-> written], res.calls)} :
              /\ data' = st.data
              /\ prevdata' = st.prevdata
              /\ written' = st.written
         /\ done' = done \o res.calls
         /\ returned' = IF res.ret THEN "true" ELSE "false"
    /\ called' = "SoftwareRenderer.renderPolygon"
    /\ UNCHANGED <<pending, camera, obj, poly, ctxlog, args, renderer, sortVars, lightVars>>

\* CanvasRenderer.render, case "point": one renderPoint call
RenderPoint ==
    /\ called = "none"
    /\ obj.style.drawmode = "point"
    /\ \E index \in 1 .. Len(obj.coords) :
         ctxlog' = renderPoint(obj, index, lights)
    /\ called' = "CanvasRenderer.renderPoint"
    /\ returned' = "undefined"
    /\ UNCHANGED <<camera, obj, poly, args, renderer, rasterVars, sortVars, lightVars>>

\* CanvasRenderer.render, case "wireframe": one renderEdge call
RenderEdge ==
    /\ called = "none"
    /\ obj.style.drawmode = "wireframe"
    /\ \E e \in 1 .. Len(obj.edges) :
         ctxlog' = renderEdge(obj, obj.edges[e], lights)
    /\ called' = "CanvasRenderer.renderEdge"
    /\ returned' = "undefined"
    /\ UNCHANGED <<camera, obj, poly, args, renderer, rasterVars, sortVars, lightVars>>

PolyNext ==
    \/ CanvasRenderPolygon
    \/ SoftwareRenderPolygon
    \/ RenderPoint
    \/ RenderEdge

SpecPoly == PolyInit /\ [][PolyNext]_vars

-----------------------------------------------------------------------------
(***************************************************************************)
(* inflatePolygon on its own: polygons over a few screen points, with      *)
(* repeated and collinear vertices and in both winding orders              *)
(***************************************************************************)

\* screen points in units of 1/32 pixel: the corners of a square of side 4,
\* the corners of a 3-4-5 and of a 5-12-13 triangle, and a point on the
\* line through the first two
InflateCoords ==
    <<[x |-> 0, y |-> 0, w |-> RInt(1)], [x |-> 128, y |-> 0, w |-> RInt(1)],
      [x |-> 128, y |-> 128, w |-> RInt(1)], [x |-> 0, y |-> 128, w |-> RInt(1)],
      [x |-> 128, y |-> 96, w |-> RInt(1)], [x |-> 256, y |-> 0, w |-> RInt(1)],
      [x |-> 384, y |-> 0, w |-> RInt(1)], [x |-> 384, y |-> 160, w |-> RInt(1)]>>

IsSquare(n) == \E r \in 0 .. n : r * r = n

\* the vertex after i, around the polygon
NextVertex(vertices, i) == IF i < Len(vertices) THEN vertices[i + 1] ELSE vertices[1]
\* the vertex before i, around the polygon
PrevVertex(vertices, i) == IF i > 1 THEN vertices[i - 1] ELSE vertices[Len(vertices)]

\* the squared length of the edge from vertex i
EdgeLengthSquared(vertices, coords, i) ==
    LET p1 == ScreenXY(coords, vertices[i])
        p2 == ScreenXY(coords, NextVertex(vertices, i))
    IN  ((p2[1] \ominus p1[1]) \otimes (p2[1] \ominus p1[1])) \oplus
        ((p2[2] \ominus p1[2]) \otimes (p2[2] \ominus p1[2]))

\* the polygons whose edge lengths are rational, the square root being exact
ExactEdges(vertices, coords) ==
    \A i \in 1 .. Len(vertices) :
        /\ IsSquare(EdgeLengthSquared(vertices, coords, i)[1])
        /\ IsSquare(EdgeLengthSquared(vertices, coords, i)[2])

InflatePolygons ==
    {vertices \in UNION {[1 .. n -> 1 .. Len(InflateCoords)] : n \in 3 .. MaxVertices} :
        ExactEdges(vertices, InflateCoords)}

InflateInit ==
    /\ SortIdle
    /\ RasterIdle
    /\ LightIdle
    /\ camera = <<>>
    /\ ctxlog = <<>>
    /\ called = "none"
    /\ returned = "none"
    /\ args = <<>>
    /\ renderer = "none"
    /\ obj = [Entity(DefaultStyle, SolidWorldCoords, NoClip) EXCEPT
                  !.coords = InflateCoords,
                  !.clip = [v \in 1 .. Len(InflateCoords) |-> 0]]
    /\ \E vertices \in InflatePolygons :
         poly = Polygon(vertices, Null, Null, V3(0, 0, -1))

\* one call of inflatePolygon(poly.vertices, obj._coords)
InflatePolygon ==
    /\ called = "none"
    /\ returned' = inflatePolygon(poly.vertices, obj.coords)
    /\ called' = "Renderer.inflatePolygon"
    /\ UNCHANGED <<camera, obj, poly, ctxlog, args, renderer, rasterVars, sortVars, lightVars>>

InflateNext == InflatePolygon

SpecInflate == InflateInit /\ [][InflateNext]_vars

(***************************************************************************)
(* Properties of the renderers                                             *)
(***************************************************************************)
PolygonCalls == {"CanvasRenderer.renderPolygon", "SoftwareRenderer.renderPolygon"}

\* every vertex of the polygon carries a non-zero clip flag
AllVerticesClipped ==
    \A i \in 1 .. Len(poly.vertices) : obj.clip[poly.vertices[i]] # 0

\* the call emitted nothing: no context call, no drawTriangle call, no pixel
NothingEmitted ==
    /\ ctxlog = <<>>
    /\ done = <<>>
    /\ data = ClearData
    /\ returned # "true"

\* the dot product of the hidden-surface test
ViewDot == VDot(camera, poly.worldnormal)

\* C5: in both renderers a polygon whose vertices all carry a non-zero clip
\* flag, whatever the flag's value, is dropped by renderPolygon: no context
\* call is made and no pixel is written, whatever the style, the lights and
\* the double-sidedness.
C5_FullyClippedDropped ==
    (called \in PolygonCalls /\ AllVerticesClipped) => NothingEmitted

\* C5: the case that holds: every vertex flag has bit 0 set
C5_BitZeroClippedDropped ==
    (called \in PolygonCalls /\
     \A i \in 1 .. Len(poly.vertices) : obj.clip[poly.vertices[i]] % 2 = 1)
        => NothingEmitted

\* C5: a polygon whose three vertices all carry the flag 2 has been drawn
C5_Witness ==
    /\ called = "CanvasRenderer.renderPolygon"
    /\ \A i \in 1 .. Len(poly.vertices) : obj.clip[poly.vertices[i]] = 2
    /\ ctxlog # <<>>

\* C6: a polygon with some unclipped vertex is dropped by renderPolygon, in
\* both renderers, exactly when the object is not double-sided and the dot
\* product of the camera position with the polygon's world normal is strictly
\* below style.hiddenangle; so a double-sided object's polygon is never
\* dropped, and with hiddenangle 0 a dot product of exactly 0 is kept.
C6_HiddenSurfaceTest ==
    (called \in PolygonCalls /\ ~AllVerticesClipped) =>
        /\ (called = "CanvasRenderer.renderPolygon") =>
              (ctxlog = <<>> <=>
                 (~obj.style.doublesided /\ RLt(ViewDot, obj.style.hiddenangle)))
        /\ (called = "SoftwareRenderer.renderPolygon") =>
              /\ (returned = "false" <=>
                    (~obj.style.doublesided /\ RLt(ViewDot, obj.style.hiddenangle)))
              /\ (returned = "false" <=> done = <<>>)
        /\ obj.style.doublesided => ~NothingEmitted
        /\ (obj.style.hiddenangle = RZero /\ ViewDot = RZero) => ~NothingEmitted

\* C6: a single-sided polygon at dot product exactly 0, hiddenangle 0, is drawn
C6_Witness ==
    /\ called = "SoftwareRenderer.renderPolygon"
    /\ ~AllVerticesClipped
    /\ ~obj.style.doublesided
    /\ obj.style.hiddenangle = RZero
    /\ ViewDot = RZero
    /\ returned = "true"
    /\ done # <<>>

\* the colour channels of the context calls of a list
StyleChannels(log) ==
    {log[i][3][c] : i \in {k \in 1 .. Len(log) :
                             log[k][1] \in {"fillStyle", "strokeStyle"} /\ log[k][3] # Null},
                    c \in 1 .. 3}

\* the colour channels handed to drawTriangle
TriangleChannels(calls) ==
    UNION {{calls[i].r, calls[i].g, calls[i].b} : i \in 1 .. Len(calls)}

\* C9: in lightsource shading every colour channel that renderPoint,
\* renderEdge and the two renderPolygon emit (the light sum times the base
\* colour channel) lies in 0..255, for all lights, normals and base colours
\* in 0..255, distant lights at a negative dot product included.
C9_ChannelsInRange ==
    (called # "none" /\ obj.style.shademode = "lightsource") =>
        /\ \A ch \in StyleChannels(ctxlog) : ch \in 0 .. 255
        /\ \A ch \in TriangleChannels(done) : ch \in 0 .. 255

\* C9: the case that holds: no channel exceeds 255, and the channels of
\* points and edges, lit by position only, are never negative
C9_UpperClampOnly ==
    (called # "none" /\ obj.style.shademode = "lightsource") =>
        /\ \A ch \in StyleChannels(ctxlog) \cup TriangleChannels(done) : ch <= 255
        /\ called \in {"CanvasRenderer.renderPoint", "CanvasRenderer.renderEdge"} =>
              \A ch \in StyleChannels(ctxlog) : ch >= 0

\* C9: a polygon lit by one distant light from behind got a negative channel
C9_Witness ==
    /\ called = "SoftwareRenderer.renderPolygon"
    /\ obj.style.shademode = "lightsource"
    /\ Len(lights) = 1
    /\ lights[1].kind = "distant"
    /\ \E ch \in TriangleChannels(done) : ch < 0

\* a textured polygon of more than four vertices that passed both culls
TexturedManyVertices ==
    /\ called = "CanvasRenderer.renderPolygon"
    /\ poly.texture # Null
    /\ Len(poly.vertices) > 4
    /\ clippoly(poly.vertices, obj.clip) = 0
    /\ ~HiddenSurface(obj, poly, camera)

\* the calls that put something on the canvas
DrawingCalls(log) ==
    {i \in 1 .. Len(log) : log[i][1] \in {"drawImage", "fill", "stroke"}}

\* C13: renderPolygon on a textured polygon of more than four vertices that
\* passes culling ends with an error, it does not return normally
C13_TexturedManyVerticesFails ==
    TexturedManyVertices => returned # "undefined"

\* the call returned normally and drew nothing for the polygon
C13_Witness ==
    /\ TexturedManyVertices
    /\ returned = "undefined"
    /\ DrawingCalls(ctxlog) = {}
    /\ ctxlog[1] = <<"save">>
    /\ ctxlog[Len(ctxlog)] = <<"restore">>

\* an untextured polygon that passed both culls
UntexturedDrawn ==
    /\ called = "CanvasRenderer.renderPolygon"
    /\ poly.texture = Null
    /\ clippoly(poly.vertices, obj.clip) = 0
    /\ ~HiddenSurface(obj, poly, camera)

\* where the context received the call or the assignment of that name
CallsOf(log, name) == {i \in 1 .. Len(log) : log[i][1] = name}

IsPathPoint(c) == c[1] \in {"moveTo", "lineTo"}
\* the points of the path, in order
PathPoints(log) ==
    [i \in 1 .. Len(SelectSeq(log, IsPathPoint)) |->
        <<SelectSeq(log, IsPathPoint)[i][2], SelectSeq(log, IsPathPoint)[i][3]>>]

RawVertices == [i \in 1 .. Len(poly.vertices) |-> ScreenXY(obj.coords, poly.vertices[i])]

\* C17: an untextured polygon that passes culling is drawn with one fill
\* ("fill", "inflate"), two fills ("filltwice"), one fill and then one stroke
\* in the same style ("fillstroke"), or one stroke ("hiddenline"); the path
\* runs over inflatePolygon's vertices for "inflate" and over the raw screen
\* coordinates for every other mode
C17_FillModeCalls ==
    UntexturedDrawn =>
        LET mode == obj.style.fillmode
            fills == CallsOf(ctxlog, "fill")
            strokes == CallsOf(ctxlog, "stroke")
        IN  /\ mode \in {"fill", "inflate"} =>
                   Cardinality(fills) = 1 /\ strokes = {}
            /\ mode = "filltwice" => Cardinality(fills) = 2 /\ strokes = {}
            /\ mode = "fillstroke" =>
                   /\ Cardinality(fills) = 1
                   /\ Cardinality(strokes) = 1
                   /\ \A f \in fills, k \in strokes : f < k
                   /\ \A a \in CallsOf(ctxlog, "fillStyle"),
                         b \in CallsOf(ctxlog, "strokeStyle") :
                          SubSeq(ctxlog[a], 2, 3) = SubSeq(ctxlog[b], 2, 3)
                   /\ Cardinality(CallsOf(ctxlog, "strokeStyle")) = 1
                   /\ Cardinality(CallsOf(ctxlog, "fillStyle")) = 1
            /\ mode = "hiddenline" => Cardinality(strokes) = 1 /\ fills = {}
            /\ PathPoints(ctxlog) =
                   IF mode = "inflate" THEN inflatePolygon(poly.vertices, obj.coords)
                                       ELSE RawVertices

\* a quad filled twice over its raw outline
C17_Witness ==
    /\ UntexturedDrawn
    /\ obj.style.fillmode = "filltwice"
    /\ Len(poly.vertices) = 4
    /\ Cardinality(CallsOf(ctxlog, "fill")) = 2
    /\ PathPoints(ctxlog) = RawVertices
    /\ RawVertices # inflatePolygon(poly.vertices, obj.coords)

\* the log holds the line from vertex a to vertex b
EdgeDrawn(log, edge) ==
    /\ \E i \in 1 .. Len(log) :
           log[i] = <<"moveTo", ScreenXY(obj.coords, edge.a)[1], ScreenXY(obj.coords, edge.a)[2]>>
    /\ \E i \in 1 .. Len(log) :
           log[i] = <<"lineTo", ScreenXY(obj.coords, edge.b)[1], ScreenXY(obj.coords, edge.b)[2]>>

BothEndsClipped(edge) == obj.clip[edge.a] # 0 /\ obj.clip[edge.b] # 0

\* C18: renderEdge skips an edge exactly when both of its ends carry a
\* non-zero clip flag, whatever the two values are: no edge with both ends
\* clipped is drawn, and a call that drew nothing was for such an edge
C18_SkippedIffBothClipped ==
    called = "CanvasRenderer.renderEdge" =>
        /\ \A e \in 1 .. Len(obj.edges) :
               EdgeDrawn(ctxlog, obj.edges[e]) => ~BothEndsClipped(obj.edges[e])
        /\ ctxlog = <<>> => \E e \in 1 .. Len(obj.edges) : BothEndsClipped(obj.edges[e])

\* what the test does: a drawn edge has no clip bit set at both ends, and a
\* call that drew nothing was for an edge whose flags share a bit
C18_SkippedIffCommonBit ==
    called = "CanvasRenderer.renderEdge" =>
        /\ \A e \in 1 .. Len(obj.edges) :
               EdgeDrawn(ctxlog, obj.edges[e]) =>
                   BitAnd(obj.clip[obj.edges[e].a], obj.clip[obj.edges[e].b]) = 0
        /\ ctxlog = <<>> =>
               \E e \in 1 .. Len(obj.edges) :
                   BitAnd(obj.clip[obj.edges[e].a], obj.clip[obj.edges[e].b]) # 0

\* the edge between a vertex flagged 1 and a vertex flagged 2 is drawn
C18_Witness ==
    /\ called = "CanvasRenderer.renderEdge"
    /\ obj.clip[obj.edges[1].a] = 1
    /\ obj.clip[obj.edges[1].b] = 2
    /\ EdgeDrawn(ctxlog, obj.edges[1])

\* the vertices of the polygon on screen, in 28.4 fixed point
PolyFixed(i) ==
    <<Round16(obj.coords[poly.vertices[i]].x), Round16(obj.coords[poly.vertices[i]].y)>>

\* an axis-aligned quad handed to SoftwareRenderer.renderPolygon, plain
\* shading, not clipped and not hidden
AxisAlignedQuadDrawn ==
    /\ called = "SoftwareRenderer.renderPolygon"
    /\ Len(poly.vertices) = 4
    /\ obj.style.shademode = "plain"
    /\ clippoly(poly.vertices, obj.clip) = 0
    /\ ~HiddenSurface(obj, poly, camera)
    /\ \A i \in 1 .. 4 :
           LET k == IF i < 4 THEN i + 1 ELSE 1
           IN  (PolyFixed(i)[1] = PolyFixed(k)[1]) /= (PolyFixed(i)[2] = PolyFixed(k)[2])

\* the pixels of the canvas in the bounding box of the quad
QuadBoxPixels ==
    {p \in Pixels :
        /\ \E i \in 1 .. 4 : CeilDiv16(PolyFixed(i)[1]) <= p[1]
        /\ \E i \in 1 .. 4 : p[1] < CeilDiv16(PolyFixed(i)[1])
        /\ \E i \in 1 .. 4 : CeilDiv16(PolyFixed(i)[2]) <= p[2]
        /\ \E i \in 1 .. 4 : p[2] < CeilDiv16(PolyFixed(i)[2])}

\* the two triangles share the diagonal between vertex 0 and vertex 2 and
\* have the same winding
SplitAlongDiagonal ==
    /\ Len(done) = 2
    /\ Fixed(done[1]) = <<PolyFixed(3), PolyFixed(2), PolyFixed(1)>>
    /\ Fixed(done[2]) = <<PolyFixed(1), PolyFixed(4), PolyFixed(3)>>
    /\ (Orient(PolyFixed(3), PolyFixed(2), PolyFixed(1)) > 0) =
       (Orient(PolyFixed(1), PolyFixed(4), PolyFixed(3)) > 0)

\* C19: a 4-vertex polygon is drawn as two triangles of the same winding
\* that share the diagonal between vertex 0 and vertex 2; for an unclipped,
\* front-facing axis-aligned quad with plain shading the pixels written are
\* exactly those of the quad's bounding box, each in the style's base colour,
\* and no pixel is written by both triangles
C19_QuadFillsBoundingBox ==
    AxisAlignedQuadDrawn =>
        /\ SplitAlongDiagonal
        /\ written[1] \cup written[2] = QuadBoxPixels
        /\ written[1] \cap written[2] = {}
        /\ \A p \in Pixels :
               RGBA(data, p) = IF p \in QuadBoxPixels
                               THEN <<obj.style.color[1], obj.style.color[2],
                                      obj.style.color[3], 255>>
                               ELSE RGBA(ClearData, p)

\* C19 amended: the two triangles share the diagonal and the winding; when
\* the screen vertices run so that (v2, v1, v0) is the winding drawTriangle
\* fills, the pixels written are exactly those of the quad's bounding box on
\* the canvas, each in the polygon's colour (the style's base colour when it
\* has none) and none written twice; in the opposite winding nothing is
\* written
C19_QuadFillsOneWinding ==
    AxisAlignedQuadDrawn =>
        /\ SplitAlongDiagonal
        /\ written[1] \cap written[2] = {}
        /\ written[1] \cup written[2] =
               IF Orient(PolyFixed(3), PolyFixed(2), PolyFixed(1)) > 0
               THEN QuadBoxPixels ELSE {}
        /\ \A p \in Pixels :
               RGBA(data, p) = IF p \in written[1] \cup written[2]
                               THEN <<PolyColor(obj, poly)[1], PolyColor(obj, poly)[2],
                                      PolyColor(obj, poly)[3], 255>>
                               ELSE RGBA(ClearData, p)

\* the square of side 2 at the origin: four pixels, the two on the diagonal
\* written by one triangle each
C19_Witness ==
    /\ AxisAlignedQuadDrawn
    /\ Orient(PolyFixed(3), PolyFixed(2), PolyFixed(1)) > 0
    /\ poly.color = Null
    /\ QuadBoxPixels = {<<0, 0>>, <<1, 0>>, <<0, 1>>, <<1, 1>>}
    /\ PolyFixed(1) = <<0, 0>>
    /\ PolyFixed(3) = <<32, 32>>
    /\ written[1] \cup written[2] = QuadBoxPixels
    /\ written[1] # {}
    /\ written[2] # {}
    /\ (<<1, 1>> \in written[1]) /= (<<1, 1>> \in written[2])

-----------------------------------------------------------------------------
(***************************************************************************)
(* Properties of inflatePolygon                                            *)
(***************************************************************************)
Inflated == called = "Renderer.inflatePolygon"

\* the screen position of the polygon's vertex i
Original(i) == ScreenXY(obj.coords, poly.vertices[i])

FinitePair(vec) == IsFinite(vec[1]) /\ IsFinite(vec[2])

\* the edge from vertex i to the next has no length
ZeroLengthEdge(i) ==
    Original(i) = ScreenXY(obj.coords, NextVertex(poly.vertices, i))

\* corner i is an end of an edge without length
AtZeroLengthEdge(i) ==
    \/ ZeroLengthEdge(i)
    \/ ZeroLengthEdge(IF i > 1 THEN i - 1 ELSE Len(poly.vertices))

\* C14: for a polygon with two consecutive vertices at the same screen
\* position every returned corner is a pair of finite numbers, and each
\* corner at the edge without length is left out or is the original vertex
C14_ZeroLengthEdgeGuarded ==
    (Inflated /\ \E i \in 1 .. Len(poly.vertices) : ZeroLengthEdge(i)) =>
        /\ \A i \in 1 .. Len(returned) : FinitePair(returned[i])
        /\ Len(returned) = Len(poly.vertices) =>
               \A i \in 1 .. Len(returned) :
                   AtZeroLengthEdge(i) => returned[i] = Original(i)

\* the quad 0,1,1,4 of the 3-4-5 triangle: both corners at the repeated
\* vertex come back as NaN
C14_Witness ==
    /\ Inflated
    /\ poly.vertices = <<1, 2, 2, 5>>
    /\ ZeroLengthEdge(2)
    /\ returned[2] = <<NaN, NaN>>
    /\ returned[3] = <<NaN, NaN>>
    /\ FinitePair(returned[1])

\* |a - b| <= 3/2, which no NaN or infinity satisfies
Within(a, b) ==
    /\ IsFinite(a)
    /\ ~FGt(FAbs(FSub(a, b)), Rat(3, 2))

\* the intersection of the two offset edges at corner i, before the reset
RawIntersection(pedges, i) ==
    IF i = 1 THEN EdgeIntersection(pedges, Len(poly.vertices) - 1, 0)
             ELSE EdgeIntersection(pedges, i - 2, i - 1)

Deviates(vec, orig) == ~Within(vec[1], orig[1]) \/ ~Within(vec[2], orig[2])

\* C15: the result has one entry per vertex; entry i is within 1.5 of the
\* original vertex i in x and in y, and is exactly the original vertex when
\* the intersection of the adjacent offset edges deviates by more (parallel
\* adjacent edges included)
C15_WithinOneAndAHalf ==
    Inflated =>
        /\ Len(returned) = Len(poly.vertices)
        /\ \A i \in 1 .. Len(poly.vertices) :
               /\ Within(returned[i][1], Original(i)[1])
               /\ Within(returned[i][2], Original(i)[2])
               /\ Deviates(RawIntersection(ParallelEdges(poly.vertices, obj.coords, 1), i),
                           Original(i))
                      => returned[i] = Original(i)

\* the 5-12-13 triangle with a fourth vertex on its side of length 12: the
\* offset edges at that vertex coincide, the line parameter is 0 / 0 and the
\* corner comes back as NaN
C15_Witness ==
    /\ Inflated
    /\ poly.vertices = <<1, 2, 7, 8>>
    /\ Len(returned) = 4
    /\ returned[2] = <<NaN, NaN>>
    /\ returned[1] = Original(1)
    /\ returned[3] = <<Rat(25, 2), Rat(-1, 2)>>

\* (q - p) x (r - p) for screen points
Cross(p, q, r) ==
    ((q[1] \ominus p[1]) \otimes (r[2] \ominus p[2])) \ominus
    ((q[2] \ominus p[2]) \otimes (r[1] \ominus p[1]))

\* the turn at corner i: the sign of (edge into i) x (edge out of i)
Turn(i) ==
    Sgn(Cross(ScreenXY(obj.coords, PrevVertex(poly.vertices, i)), Original(i),
              ScreenXY(obj.coords, NextVertex(poly.vertices, i)))[1])

\* distinct vertices that all turn the same way
ConvexPolygon ==
    /\ \A i, k \in 1 .. Len(poly.vertices) : i # k => poly.vertices[i] # poly.vertices[k]
    /\ Turn(1) # 0
    /\ \A i \in 1 .. Len(poly.vertices) : Turn(i) = Turn(1)

\* vec lies half a unit from the line through p and q, on the side the
\* polygon is not on
HalfUnitOutside(vec, p, q) ==
    /\ Sgn(Cross(p, q, vec)[1]) = -Turn(1)
    /\ (Cross(p, q, vec) \otimes Cross(p, q, vec)) \otimes RInt(4) =
           ((q[1] \ominus p[1]) \otimes (q[1] \ominus p[1])) \oplus
           ((q[2] \ominus p[2]) \otimes (q[2] \ominus p[2]))

\* C16: for a convex polygon in either winding order every returned corner
\* is the original vertex or lies half a unit outside both adjacent edges
C16_EnclosesOriginal ==
    (Inflated /\ ConvexPolygon) =>
        \A i \in 1 .. Len(poly.vertices) :
            \/ returned[i] = Original(i)
            \/ /\ HalfUnitOutside(returned[i],
                                  ScreenXY(obj.coords, PrevVertex(poly.vertices, i)),
                                  Original(i))
               /\ HalfUnitOutside(returned[i], Original(i),
                                  ScreenXY(obj.coords, NextVertex(poly.vertices, i)))

\* the same, for the polygons that turn the way the square 0,1,2,3 does
C16_EnclosesOneWinding ==
    (Inflated /\ ConvexPolygon /\ Turn(1) = 1) =>
        \A i \in 1 .. Len(poly.vertices) :
            \/ returned[i] = Original(i)
            \/ /\ HalfUnitOutside(returned[i],
                                  ScreenXY(obj.coords, PrevVertex(poly.vertices, i)),
                                  Original(i))
               /\ HalfUnitOutside(returned[i], Original(i),
                                  ScreenXY(obj.coords, NextVertex(poly.vertices, i)))

\* the square 3,2,1,0: every corner comes back half a unit inside
C16_Witness ==
    /\ Inflated
    /\ ConvexPolygon
    /\ poly.vertices = <<4, 3, 2, 1>>
    /\ returned = <<<<Rat(1, 2), Rat(7, 2)>>, <<Rat(7, 2), Rat(7, 2)>>,
                    <<Rat(7, 2), Rat(1, 2)>>, <<Rat(1, 2), Rat(1, 2)>>>>

-----------------------------------------------------------------------------
(***************************************************************************)
(* The same polygon seen from the other side                               *)
(***************************************************************************)
RECURSIVE Reverse(_)
Reverse(s) == IF s = <<>> THEN <<>> ELSE Append(Reverse(Tail(s)), Head(s))

\* the polygon with its vertices in the opposite order
BackPoly == [poly EXCEPT !.vertices = Reverse(poly.vertices)]

\* the pixels SoftwareRenderer.renderPolygon writes into a cleared buffer
PixelsWritten(o, pl, pos, ls) ==
    UNION {DrawAll([data |-> ClearData, prevdata |-> ClearData, written |-> <<>>],
                   softwareRenderPolygon(o, pl, pos, ls).calls).written[i] :
              i \in 1 .. Len(softwareRenderPolygon(o, pl, pos, ls).calls)}

\* a double-sided polygon that was rendered with visible output
RenderedFromFront ==
    /\ called \in PolygonCalls
    /\ obj.style.doublesided
    /\ poly.texture = Null
    /\ clippoly(poly.vertices, obj.clip) = 0
    /\ called = "CanvasRenderer.renderPolygon" => DrawingCalls(ctxlog) # {}
    /\ called = "SoftwareRenderer.renderPolygon" =>
           PixelsWritten(obj, poly, camera, lights) # {}

\* C21: with style.doublesided a polygon rendered from the front is rendered
\* from the back too (camera position negated, screen winding reversed): the
\* canvas renderer fills or strokes it, the software renderer writes the
\* same set of pixels
C21_DoubleSidedBothSides ==
    RenderedFromFront =>
        /\ called = "CanvasRenderer.renderPolygon" =>
               DrawingCalls(canvasRenderPolygon(obj, BackPoly, VNegate(camera), lights)) # {}
        /\ called = "SoftwareRenderer.renderPolygon" =>
               /\ softwareRenderPolygon(obj, BackPoly, VNegate(camera), lights).ret
               /\ PixelsWritten(obj, BackPoly, VNegate(camera), lights) =
                      PixelsWritten(obj, poly, camera, lights)

\* what holds: neither renderer culls the back view, the canvas renderer
\* draws it, the software renderer calls drawTriangle and writes no pixel
C21_BackViewNotRasterized ==
    RenderedFromFront =>
        /\ called = "CanvasRenderer.renderPolygon" =>
               DrawingCalls(canvasRenderPolygon(obj, BackPoly, VNegate(camera), lights)) # {}
        /\ called = "SoftwareRenderer.renderPolygon" =>
               /\ softwareRenderPolygon(obj, BackPoly, VNegate(camera), lights).ret
               /\ softwareRenderPolygon(obj, BackPoly, VNegate(camera), lights).calls # <<>>
               /\ PixelsWritten(obj, BackPoly, VNegate(camera), lights) = {}

\* a double-sided triangle that wrote pixels and writes none from the back
C21_Witness ==
    /\ RenderedFromFront
    /\ called = "SoftwareRenderer.renderPolygon"
    /\ Len(poly.vertices) = 3
    /\ written[1] # {}
    /\ returned = "true"
    /\ PixelsWritten(obj, BackPoly, VNegate(camera), lights) = {}

\* a single-sided polygon, default hiddenangle, that was not clipped
SingleSidedCall ==
    /\ called \in PolygonCalls
    /\ ~obj.style.doublesided
    /\ obj.style.hiddenangle = RZero
    /\ clippoly(poly.vertices, obj.clip) = 0

\* C22: single-sided, hiddenangle 0: of the two opposite view positions p
\* and -p exactly one passes the hidden-surface test
C22_ExactlyOneSide ==
    SingleSidedCall =>
        (~NothingEmitted) /= (~HiddenSurface(obj, poly, VNegate(camera)))

\* C22 amended: the polygon is kept from p exactly when dot(p, n) >= 0; from
\* p and -p it is kept on exactly one side when dot(p, n) # 0 and on both
\* sides when dot(p, n) = 0
C22_OneSideUnlessEdgeOn ==
    SingleSidedCall =>
        /\ ~NothingEmitted <=> RLe(RZero, ViewDot)
        /\ ViewDot # RZero =>
               ((~NothingEmitted) /= (~HiddenSurface(obj, poly, VNegate(camera))))
        /\ ViewDot = RZero =>
               (~NothingEmitted /\ ~HiddenSurface(obj, poly, VNegate(camera)))

\* a polygon seen edge-on: kept from p and from -p
C22_Witness ==
    /\ SingleSidedCall
    /\ ViewDot = RZero
    /\ camera # V3(0, 0, 0)
    /\ ctxlog # <<>>
    /\ ~HiddenSurface(obj, poly, VNegate(camera))

-----------------------------------------------------------------------------
(***************************************************************************)
(* Whole frames: SoftwareRenderer.render and CanvasRenderer.render on the  *)
(* render list that scene.modelView() hands over before every frame.       *)
(* An object of the render list carries what sortObjects reads (sortmode,  *)
(* the depths of _coords, _averagez), the entity as the polygon routines   *)
(* read it, and its polygons.                                              *)
(***************************************************************************)
MaxFrames == 2
MaxSceneObjects == 2

SetByte(d, i, v) == IF i \in DOMAIN d THEN [d EXCEPT ![i] = v] ELSE d

\* the inner loop of clearCanvasRect: data[offset += 4] = 0 for x in xmin .. xmax-1
RECURSIVE ClearRow(_, _, _, _)
ClearRow(d, offset, x, xmax) ==
    IF x >= xmax THEN [data |-> d, offset |-> offset]
    ELSE ClearRow(SetByte(d, offset + 4, 0), offset + 4, x + 1, xmax)

\* the outer loop: one row, then offset += linestep
RECURSIVE ClearRows(_, _, _, _, _, _, _)
ClearRowStep(r, y, ymax, xmin, xmax, linestep) ==
    ClearRows(r.data, r.offset + linestep, y + 1, ymax, xmin, xmax, linestep)

ClearRows(d, offset, y, ymax, xmin, xmax, linestep) ==
    IF y >= ymax THEN d
    ELSE ClearRowStep(ClearRow(d, offset, xmin, xmax), y, ymax, xmin, xmax, linestep)

\* a clearCanvasRect that leaves the buffer as it is
clearCanvasRectNone(d, xmin, ymin, xmax, ymax) == d

\* SoftwareRenderer.clearCanvasRect
clearCanvasRect(d, xmin, ymin, xmax, ymax) ==
    ClearRows(d, (xmin + ymin * CanvasWidth - 1) * 4 + 3, ymin, ymax, xmin, xmax,
              (CanvasWidth - (xmax - xmin)) * 4)

\* the drawTriangle calls for the polygons i .. of an object, in order
RECURSIVE PolygonTriangles(_, _, _, _, _)
PolygonTriangles(o, polys, i, pos, ls) ==
    IF i > Len(polys) THEN <<>>
    ELSE softwareRenderPolygon(o, polys[i], pos, ls).calls \o
         PolygonTriangles(o, polys, i + 1, pos, ls)

\* the switch on obj.style.drawmode of SoftwareRenderer.render: "solid" only
ObjectTriangles(fo, pos, ls) ==
    IF fo.ent.style.drawmode = "solid"
    THEN PolygonTriangles(fo.ent, fo.polygons, 1, pos, ls)
    ELSE <<>>

\* the loop over scene.renderlist from index n
RECURSIVE SceneTriangles(_, _, _, _, _)
SceneTriangles(list, objs, n, pos, ls) ==
    IF n > Len(list) THEN <<>>
    ELSE ObjectTriangles(objs[list[n]], pos, ls) \o
         SceneTriangles(list, objs, n + 1, pos, ls)

SoftwareFrame(d, sorted, calls) ==
    [list |-> sorted.list, objs |-> sorted.objs, calls |-> calls,
     drawn |-> DrawAll([data |-> clearCanvasRect(d, 0, 0, CanvasWidth, CanvasHeight),
                        prevdata |-> d, written |-> <<>>], calls)]

SoftwareSorted(d, sorted, pos, ls) ==
    SoftwareFrame(d, sorted, SceneTriangles(sorted.list, sorted.objs, 1, pos, ls))

\* SoftwareRenderer.render: sort, clear the whole buffer, draw every polygon
\* of every solid object
softwareRender(d, flag, list, objs, alg, pos, ls) ==
    SoftwareSorted(d, sortObjects(flag, list, objs, alg), pos, ls)

\* an object of the render list
FrameObject(depths, ent, polygons) ==
    [sortmode |-> ent.style.sortmode, coords |-> depths, averagez |-> RZero,
     ent |-> ent, polygons |-> polygons]

\* style.compositeOperation is not set unless the application sets it
FrameStyle ==
    [f \in DOMAIN DefaultStyle \cup {"compositeOperation"} |->
        IF f = "compositeOperation" THEN Null ELSE DefaultStyle[f]]

PlainStyle == [FrameStyle EXCEPT !.shademode = "plain", !.fillmode = "fill"]

\* a quad over the top left four pixels, far from the camera
FarQuad ==
    FrameObject(<<3, 3>>,
                [Entity(PlainStyle, SolidWorldCoords, NoClip)
                    EXCEPT !.coords = QuadCoords(0, 0, 64, 64)],
                <<Polygon(<<1, 2, 3, 4>>, Null, Null, V3(0, 0, -1))>>)

\* a triangle over the bottom right of the canvas, near the camera
NearTriangle ==
    FrameObject(<<1, 2>>,
                [Entity(PlainStyle, SolidWorldCoords, NoClip)
                    EXCEPT !.coords = QuadCoords(32, 32, 96, 96)],
                <<Polygon(<<1, 2, 3>>, <<255, 64, 0>>, Null, V3(0, 0, -1))>>)

\* a wireframe object, drawn as one batched stroke
PlainWire ==
    FrameObject(<<2>>,
                Entity([PlainStyle EXCEPT !.drawmode = "wireframe"],
                       LineWorldCoords, NoClip),
                <<>>)

SoftwareObjects == {FarQuad, NearTriangle, PlainWire}

\* the calls of one routine, then those of the rest unless the first threw
NoCalls == [log |-> <<>>, thrown |-> FALSE]
Prepend(log, r) == [log |-> log \o r.log, thrown |-> r.thrown]
Then(a, b) == IF a.thrown THEN a ELSE Prepend(a.log, b)

\* case "solid": renderPolygon for the polygons i .. of the object; a
\* TypeError leaves render at once
RECURSIVE RenderPolygons(_, _, _, _, _)
RenderPolygons(o, polys, i, pos, ls) ==
    IF i > Len(polys) THEN NoCalls
    ELSE IF canvasRenderPolygonOutcome(o, polys[i], pos) = "TypeError"
    THEN [log |-> canvasRenderPolygon(o, polys[i], pos, ls), thrown |-> TRUE]
    ELSE Prepend(canvasRenderPolygon(o, polys[i], pos, ls),
                 RenderPolygons(o, polys, i + 1, pos, ls))

\* case "wireframe": renderEdge for the edges i ..
RECURSIVE RenderEdges(_, _, _)
RenderEdges(o, i, ls) ==
    IF i > Len(o.edges) THEN <<>>
    ELSE renderEdge(o, o.edges[i], ls) \o RenderEdges(o, i + 1, ls)

\* case "point": renderPoint for the coords i ..
RECURSIVE RenderPoints(_, _, _)
RenderPoints(o, i, ls) ==
    IF i > Len(o.coords) THEN <<>>
    ELSE renderPoint(o, i, ls) \o RenderPoints(o, i + 1, ls)

\* the switch on obj.style.drawmode of CanvasRenderer.render
DrawModeCalls(fo, pos, ls) ==
    CASE fo.ent.style.drawmode = "solid" ->
             Prepend(IF fo.ent.style.fillmode \in {"fillstroke", "hiddenline"}
                     THEN <<<<"lineWidth", RInt(1)>>>> ELSE <<>>,
                     RenderPolygons(fo.ent, fo.polygons, 1, pos, ls))
      [] fo.ent.style.drawmode = "wireframe" ->
             [log |-> <<<<"lineWidth", fo.ent.style.linewidth>>>> \o
                      (IF fo.ent.style.shademode = "plain"
                       THEN <<<<"strokeStyle", "rgb", fo.ent.style.color>>,
                              <<"beginPath">>>> \o
                            RenderEdges(fo.ent, 1, ls) \o
                            <<<<"closePath">>, <<"stroke">>>>
                       ELSE RenderEdges(fo.ent, 1, ls)),
              thrown |-> FALSE]
      [] fo.ent.style.drawmode = "point" ->
             [log |-> (IF fo.ent.style.shademode = "plain"
                       THEN <<<<"fillStyle", "rgb", fo.ent.style.color>>>>
                       ELSE <<>>) \o
                      RenderPoints(fo.ent, 1, ls),
              thrown |-> FALSE]
      [] OTHER -> NoCalls

\* an object of the render list left without the closing ctx.restore()
ObjectRestoreNone(r) == r

\* the ctx.restore() that closes an object of the render list
ObjectRestore(r) ==
    IF r.thrown THEN r ELSE [log |-> Append(r.log, <<"restore">>), thrown |-> FALSE]

\* ctx.save(), the composite operation, the object's calls, ctx.restore()
RenderObject(fo, pos, ls) ==
    ObjectRestore(
        Prepend(<<<<"save">>>> \o
                (IF fo.ent.style.compositeOperation # Null
                 THEN <<<<"globalCompositeOperation",
                          fo.ent.style.compositeOperation[1]>>>>
                 ELSE <<>>),
                DrawModeCalls(fo, pos, ls)))

\* the loop over scene.renderlist from index n
RECURSIVE RenderObjects(_, _, _, _, _)
RenderObjects(list, objs, n, pos, ls) ==
    IF n > Len(list) THEN NoCalls
    ELSE Then(RenderObject(objs[list[n]], pos, ls),
              RenderObjects(list, objs, n + 1, pos, ls))

CanvasFrame(sorted, calls) ==
    [list |-> sorted.list, objs |-> sorted.objs, log |-> calls.log,
     thrown |-> calls.thrown]

CanvasSorted(sorted, pos, ls) ==
    CanvasFrame(sorted,
                Prepend(<<<<"clearRect", 0, 0, CanvasWidth, CanvasHeight>>>>,
                        RenderObjects(sorted.list, sorted.objs, 1, pos, ls)))

\* CanvasRenderer.render(scene) without a clear function: sort, clear, draw
\* every object between ctx.save() and ctx.restore()
canvasRender(flag, list, objs, alg, pos, ls) ==
    CanvasSorted(sortObjects(flag, list, objs, alg), pos, ls)

\* an object with a textured triangle, quad and pentagon, lit
Textured ==
    FrameObject(<<2>>,
                Entity(FrameStyle, SolidWorldCoords, NoClip),
                <<Polygon(<<1, 2, 3>>, Null, <<1>>, V3(0, 0, -1)),
                  Polygon(<<1, 2, 3, 4>>, Null, <<1>>, V3(0, 0, -1)),
                  Polygon(<<1, 2, 3, 4, 5>>, Null, <<1>>, V3(0, 0, -1))>>)

\* an object with a clipped polygon, one facing away and one that is stroked
Culled ==
    FrameObject(<<-1, 1>>,
                Entity([FrameStyle EXCEPT !.fillmode = "hiddenline"],
                       SolidWorldCoords, [NoClip EXCEPT ![1] = 1, ![2] = 1, ![3] = 1]),
                <<Polygon(<<1, 2, 3>>, Null, Null, V3(0, 0, -1)),
                  Polygon(<<3, 4, 5>>, Null, Null, V3(0, 0, 1)),
                  Polygon(<<3, 4, 5>>, Null, Null, V3(0, 0, -1))>>)

\* points drawn with a composite operation of their own
Points ==
    FrameObject(<<1, 2>>,
                Entity([PlainStyle EXCEPT !.drawmode = "point",
                                          !.sortmode = "unsorted",
                                          !.compositeOperation = <<"lighter">>],
                       LineWorldCoords, NoClip),
                <<>>)

\* a quad whose texture is not loaded
MissingTexture ==
    FrameObject(<<3, 3>>,
                Entity(PlainStyle, SolidWorldCoords, NoClip),
                <<Polygon(<<1, 2, 3, 4>>, Null, <<2>>, V3(0, 0, -1))>>)

\* a wireframe object lit edge by edge, its line width scaled by depth
LitWire ==
    FrameObject(<<1, 2>>,
                Entity([FrameStyle EXCEPT !.drawmode = "wireframe",
                                          !.linescale = Rat(1, 2)],
                       LineWorldCoords, [NoClip EXCEPT ![1] = 1]),
                <<>>)

CanvasObjects == {FarQuad, PlainWire, LitWire, Textured, Culled, Points, MissingTexture}

\* the render lists scene.modelView() produces
Scenes(objs) == UNION {[1 .. n -> objs] : n \in 0 .. MaxSceneObjects}

FrameLights == {x \in DistantLights : x.color[3] = RZero /\ x.direction = V3(0, 0, 1)}

FrameInit ==
    /\ RasterIdle
    /\ SortIdle
    /\ position = <<>>
    /\ normal = <<>>
    /\ normalrgb = <<>>
    /\ positionrgb = <<>>
    /\ camera = V3(0, 0, -2)
    /\ obj = Null
    /\ poly = Null
    /\ ctxlog = <<>>
    /\ called = "none"
    /\ returned = "none"
    /\ args = <<>>
    /\ renderer \in {"canvas", "software"}
    /\ \E l \in FrameLights : lights \in {<<>>, <<l>>}

\* scene.modelView(): the render list of the next frame, whose calls on the
\* context ctxlog collects
ModelView ==
    /\ called \in {"none", "CanvasRenderer.render", "SoftwareRenderer.render"}
    /\ sortcalls < MaxFrames
    /\ \E scene \in Scenes(IF renderer = "canvas" THEN CanvasObjects
                                                  ELSE SoftwareObjects) :
         /\ objects' = scene
         /\ renderlist' = [i \in 1 .. Len(scene) |-> i]
    /\ ctxlog' = <<>>
    /\ called' = "Scene.modelView"
    /\ returned' = "undefined"
    /\ UNCHANGED <<sortflag, sortcalls, camera, obj, poly, args, renderer,
                   rasterVars, lightVars>>

\* SoftwareRenderer.render(scene)
SoftwareRender ==
    /\ renderer = "software"
    /\ called = "Scene.modelView"
    /\ \E alg \in SortAlgorithms :
         \E res \in {softwareRender(data, sortflag, renderlist, objects, alg,
                                    camera, lights)} :
            /\ renderlist' = res.list
            /\ objects' = res.objs
            /\ done' = res.calls
            /\ data' = res.drawn.data
            /\ written' = res.drawn.written
    /\ prevdata' = data
    /\ sortcalls' = sortcalls + 1
    /\ ctxlog' = <<<<"putImageData">>>>
    /\ called' = "SoftwareRenderer.render"
    /\ returned' = "undefined"
    /\ UNCHANGED <<sortflag, pending, camera, obj, poly, args, renderer, lightVars>>

\* CanvasRenderer.render(scene)
CanvasRender ==
    /\ renderer = "canvas"
    /\ called = "Scene.modelView"
    /\ \E alg \in SortAlgorithms :
         \E res \in {canvasRender(sortflag, renderlist, objects, alg,
                                  camera, lights)} :
            /\ renderlist' = res.list
            /\ objects' = res.objs
            /\ ctxlog' = res.log
            /\ returned' = IF res.thrown THEN "TypeError" ELSE "undefined"
    /\ sortcalls' = sortcalls + 1
    /\ called' = "CanvasRenderer.render"
    /\ UNCHANGED <<sortflag, camera, obj, poly, args, renderer, rasterVars, lightVars>>

\* SoftwareRenderer.clearCanvasRect on a rectangle of the canvas
ClearCanvasRect ==
    /\ renderer = "software"
    /\ called = "SoftwareRenderer.render"
    /\ sortcalls = MaxFrames
    /\ \E xmin, xmax \in 0 .. CanvasWidth, ymin, ymax \in 0 .. CanvasHeight :
         /\ xmin <= xmax
         /\ ymin <= ymax
         /\ data' = clearCanvasRect(data, xmin, ymin, xmax, ymax)
         /\ args' = <<xmin, ymin, xmax, ymax>>
    /\ prevdata' = data
    /\ called' = "SoftwareRenderer.clearCanvasRect"
    /\ returned' = "undefined"
    /\ UNCHANGED <<pending, done, written, camera, obj, poly, ctxlog, renderer,
                   sortVars, lightVars>>

FrameNext ==
    \/ ModelView
    \/ SoftwareRender
    \/ CanvasRender
    \/ ClearCanvasRect

SpecFrame == FrameInit /\ [][FrameNext]_vars

-----------------------------------------------------------------------------
(***************************************************************************)
(* Properties of whole frames                                              *)
(***************************************************************************)
Alpha(d, p) == RGBA(d, p)[4]

\* the pixels the triangles of the latest frame wrote
FramePixels == UNION {written[i] : i \in 1 .. Len(written)}

InsideRect(p, r) == r[1] <= p[1] /\ p[1] < r[3] /\ r[2] <= p[2] /\ p[2] < r[4]

\* the byte of the buffer is the alpha byte of a pixel inside the rectangle
AlphaByteInside(i, r) ==
    \E p \in Pixels : InsideRect(p, r) /\ i = 4 * (p[1] + p[2] * CanvasWidth) + 3

\* C23: after SoftwareRenderer.render, whatever the frames before it drew, a
\* pixel of the buffer has alpha 255 if the triangles of this frame wrote it
\* and alpha 0 if they did not; and clearCanvasRect on a rectangle of the
\* canvas changes nothing but alpha bytes of pixels inside the rectangle,
\* which it sets to 0.
C23_ClearedEveryFrame ==
    /\ called = "SoftwareRenderer.render" =>
          \A p \in Pixels :
             Alpha(data, p) = (IF p \in FramePixels THEN 255 ELSE 0)
    /\ called = "SoftwareRenderer.clearCanvasRect" =>
          /\ \A i \in DOMAIN data : data[i] # prevdata[i] => AlphaByteInside(i, args)
          /\ \A p \in Pixels : InsideRect(p, args) => Alpha(data, p) = 0

\* a later frame has left transparent a pixel that the frame before it drew,
\* and has drawn another
C23_Witness ==
    /\ called = "SoftwareRenderer.render"
    /\ sortcalls > 1
    /\ \E p, q \in Pixels :
          /\ Alpha(prevdata, p) = 255
          /\ Alpha(data, p) = 0
          /\ q \in FramePixels

\* clearCanvasRect has cleared some drawn pixels and left others drawn
C23_RectWitness ==
    /\ called = "SoftwareRenderer.clearCanvasRect"
    /\ \E p, q \in Pixels :
          /\ Alpha(prevdata, p) = 255
          /\ Alpha(data, p) = 0
          /\ Alpha(data, q) = 255

\* an object of the render list without its _averagez: its style, the depths
\* of _coords, the entity's _coords, _worldcoords and _clip buffers, edges and
\* textures, and its polygons with their vertex lists and normals
Geometry(fo) == [f \in DOMAIN fo \ {"averagez"} |-> fo[f]]

Range(s) == {s[i] : i \in DOMAIN s}

RenderCalls == {"CanvasRenderer.render", "SoftwareRenderer.render"}

RECURSIVE SaveDepth(_, _)
SaveDepth(log, i) ==
    IF i = 0 THEN 0
    ELSE SaveDepth(log, i - 1) +
         (CASE log[i][1] = "save" -> 1
            [] log[i][1] = "restore" -> -1
            [] OTHER -> 0)

\* C30: in the calls of one CanvasRenderer.render the save depth never drops
\* below its value at entry; when render returns it is back at that value;
\* every clip and transform is made inside the save of its polygon and every
\* composite operation inside the save of its object, so the restore that
\* closes the polygon or object undoes it before the next one begins.
C30_SavesRestored ==
    called = "CanvasRenderer.render" =>
       /\ \A i \in 1 .. Len(ctxlog) : SaveDepth(ctxlog, i) >= 0
       /\ returned = "undefined" =>
             /\ SaveDepth(ctxlog, Len(ctxlog)) = 0
             /\ \A i \in 1 .. Len(ctxlog) :
                   /\ ctxlog[i][1] \in {"clip", "transform"} => SaveDepth(ctxlog, i) >= 2
                   /\ ctxlog[i][1] = "globalCompositeOperation" =>
                         SaveDepth(ctxlog, i) >= 1

\* a frame that returned after a textured quad (three saves deep), a
\* polygon that was culled and an object with a composite operation
C30_Witness ==
    /\ called = "CanvasRenderer.render"
    /\ returned = "undefined"
    /\ \E i \in 1 .. Len(ctxlog) : SaveDepth(ctxlog, i) = 3
    /\ \E i \in 1 .. Len(ctxlog) : ctxlog[i][1] = "globalCompositeOperation"

\* a frame with culled polygons only: the object's save and restore, nothing between
C30_CulledWitness ==
    /\ called = "CanvasRenderer.render"
    /\ returned = "undefined"
    /\ \E id \in DOMAIN objects : Len(objects[id].polygons) = 3 /\ objects[id].ent.clip # NoClip
    /\ \E i \in 1 .. Len(ctxlog) : ctxlog[i][1] = "stroke"

-----------------------------------------------------------------------------
(***************************************************************************)
(* Phoria.Entity.initCoordinateBuffers: the four per-vertex buffers of an  *)
(* entity while the application changes its points.  A buffer is null or   *)
(* an array with an identity and a length; obj is the entity.              *)
(***************************************************************************)
MaxPoints == 6

BufferFields == {"worldcoords", "coords", "worldVertexNormals", "clip"}

\* populateBuffer(len, fnFactory) and new CLIP_ARRAY_TYPE(len): a new array
populateBuffer(len, id) == [id |-> id, length |-> len]

\* the buffer is replaced whatever its length
InitBufferAlways(e, field) ==
    [e EXCEPT ![field] = populateBuffer(e.points, e.allocated + 1),
              !.allocated = e.allocated + 1]

\* if (this._x === null || this._x.length < len) this._x = a new array of len
InitBuffer(e, field) ==
    IF e[field] = Null \/ e[field].length < e.points
    THEN [e EXCEPT ![field] = populateBuffer(e.points, e.allocated + 1),
                   !.allocated = e.allocated + 1]
    ELSE e

initCoordinateBuffers(e) ==
    InitBuffer(InitBuffer(InitBuffer(InitBuffer(e, "worldcoords"), "coords"),
                          "worldVertexNormals"), "clip")

\* a new entity: no points, no buffers
BuffersInit ==
    /\ RasterIdle
    /\ SortIdle
    /\ LightIdle
    /\ camera = Null
    /\ poly = Null
    /\ ctxlog = <<>>
    /\ called = "none"
    /\ returned = "none"
    /\ args = <<>>
    /\ renderer = "none"
    /\ obj = [points |-> 0, worldcoords |-> Null, coords |-> Null,
              worldVertexNormals |-> Null, clip |-> Null, allocated |-> 0]

\* the application replaces entity.points
SetPoints ==
    /\ \E n \in 0 .. MaxPoints :
         /\ n # obj.points
         /\ obj' = [obj EXCEPT !.points = n]
    /\ called' = "Entity.points"
    /\ UNCHANGED <<camera, poly, ctxlog, returned, args, renderer,
                   rasterVars, sortVars, lightVars>>

InitCoordinateBuffers ==
    /\ obj' = initCoordinateBuffers(obj)
    /\ called' = "Entity.initCoordinateBuffers"
    /\ UNCHANGED <<camera, poly, ctxlog, returned, args, renderer,
                   rasterVars, sortVars, lightVars>>

BuffersNext ==
    \/ SetPoints
    \/ InitCoordinateBuffers

SpecBuffers == BuffersInit /\ [][BuffersNext]_vars

BufferLength(buf) == IF buf = Null THEN 0 ELSE buf.length

\* C25: no step shortens any of the four buffers; after initCoordinateBuffers
\* every buffer exists and is at least points.length long; and a buffer that
\* was long enough before the call is the same array after it.
C25_BuffersOnlyGrow ==
    [][\A f \in BufferFields :
          /\ BufferLength(obj'[f]) >= BufferLength(obj[f])
          /\ called' = "Entity.initCoordinateBuffers" =>
                /\ obj'[f] # Null
                /\ obj'[f].length >= obj'.points
                /\ (obj[f] # Null /\ obj[f].length >= obj.points) => obj'[f] = obj[f]]_vars

\* after points shrank, initCoordinateBuffers has kept buffers that were
\* allocated earlier and are longer than needed
C25_Witness ==
    /\ called = "Entity.initCoordinateBuffers"
    /\ obj.points > 0
    /\ \A f \in BufferFields : obj[f].length > obj.points
    /\ obj.allocated > 4

-----------------------------------------------------------------------------
(***************************************************************************)
(* Phoria.EmitterEntity.emitParticles.  obj is the emitter: rate, maximum, *)
(* lifetime, lifetimeRnd, _lastEmitTime, its children (each particle with  *)
(* the serial number of its creation and its _gravetime), the clock as the *)
(* last call read it, and the number of particles created so far.  Times   *)
(* are in ms.  The rates are multiples of 250 per second, for which        *)
(* (rate / 1000) * since is exact in floating point.                       *)
(***************************************************************************)
MaxTime == 6
MaxElapsed == 3
MaxMaximum == 2

\* if (p._gravetime && now > p._gravetime)
Expired(p, now) == p.gravetime # 0 /\ now > p.gravetime

RemoveAt(s, i) == [k \in 1 .. Len(s) - 1 |-> IF k < i THEN s[k] ELSE s[k + 1]]

\* the clean-up loop: children.splice(i, 1) inside for (i = 0; ...; i++),
\* here with i counting from 1
RECURSIVE CleanUp(_, _, _)
CleanUp(children, now, i) ==
    IF i > Len(children) THEN children
    ELSE IF Expired(children[i], now) THEN CleanUp(RemoveAt(children, i), now, i + 1)
    ELSE CleanUp(children, now, i + 1)

\* Math.floor((this.rate / 1000) * since)
EmitCount(e, now) == (e.rate * (now - e.lastEmitTime)) \div 1000

\* Math.floor(now + lifetime + lifetimeRnd * Math.random() - lifetimeRnd * 0.5),
\* Math.random() being q / 4
GraveTime(e, now, q) ==
    (4 * (now + e.lifetime) + e.lifetimeRnd * q - 2 * e.lifetimeRnd) \div 4

\* a loop condition that does not look at maximum
HasRoomAlways(e) == TRUE

\* this.maximum === 0 || this.children.length < this.maximum
HasRoom(e) == e.maximum = 0 \/ Len(e.children) < e.maximum

\* the emit loop from c; rnd[c + 1] is the Math.random() of particle c
RECURSIVE EmitLoop(_, _, _, _, _)
PushParticle(e, now, q) ==
    [e EXCEPT !.children = Append(e.children,
                                  [id |-> e.emitted + 1, gravetime |-> GraveTime(e, now, q)]),
              !.emitted = e.emitted + 1]

EmitLoop(e, now, c, count, rnd) ==
    IF c < count /\ HasRoom(e)
    THEN EmitLoop(PushParticle(e, now, rnd[c + 1]), now, c + 1, count, rnd)
    ELSE e

\* the emit step on the emitter after the clean-up
EmitStep(e, now, count, rnd) ==
    IF count > 0
    THEN [EmitLoop(e, now, 0, count, rnd) EXCEPT !.lastEmitTime = now]
    ELSE e

\* EmitterEntity.emitParticles with Date.now() = now
emitParticles(e, now, rnd) ==
    EmitStep([e EXCEPT !.children = CleanUp(e.children, now, 1), !.now = now],
             now, EmitCount(e, now), rnd)

Rates == {0, 250, 500, 1000}
Lifetimes == {0, 1, 2}
LifetimeRnds == {0, 2}
RandomQuarters == {0, 2, 3}

\* a new emitter: _lastEmitTime = Date.now(), no children
EmitterInit ==
    /\ RasterIdle
    /\ SortIdle
    /\ LightIdle
    /\ camera = Null
    /\ poly = Null
    /\ ctxlog = <<>>
    /\ called = "none"
    /\ returned = "none"
    /\ args = <<>>
    /\ renderer = "none"
    /\ \E rate \in Rates, maximum \in 0 .. MaxMaximum, lifetime \in Lifetimes,
          lifetimeRnd \in LifetimeRnds :
         obj = [rate |-> rate, maximum |-> maximum, lifetime |-> lifetime,
                lifetimeRnd |-> lifetimeRnd, lastEmitTime |-> 1, children |-> <<>>,
                now |-> 1, emitted |-> 0]

\* the scene calls emitParticles when Date.now() is now
EmitParticles ==
    /\ \E now \in obj.now .. Min2(obj.now + MaxElapsed, MaxTime) :
         \E rnd \in [1 .. MaxElapsed -> IF obj.lifetimeRnd = 0 THEN {0}
                                                              ELSE RandomQuarters] :
            obj' = emitParticles(obj, now, rnd)
    /\ called' = "EmitterEntity.emitParticles"
    /\ UNCHANGED <<camera, poly, ctxlog, returned, args, renderer,
                   rasterVars, sortVars, lightVars>>

EmitterNext == EmitParticles

SpecEmitter == EmitterInit /\ [][EmitterNext]_vars

(***************************************************************************)
(* Properties of emitParticles                                             *)
(***************************************************************************)
EmitterCall == called' = "EmitterEntity.emitParticles" /\ obj' # obj

\* C26: after emitParticles, no child that was expired when the call read
\* the clock (its _gravetime is not 0 and is less than now) is still in the
\* children list.
C26_ExpiredRemoved ==
    [][\A i \in 1 .. Len(obj.children) :
          Expired(obj.children[i], obj'.now) => obj.children[i] \notin Range(obj'.children)]_vars

\* what the loop does remove: an expired child that does not come directly
\* after another expired child
C26_FirstOfRunRemoved ==
    [][\A i \in 1 .. Len(obj.children) :
          (/\ Expired(obj.children[i], obj'.now)
           /\ i > 1 => ~Expired(obj.children[i - 1], obj'.now))
          => obj.children[i] \notin Range(obj'.children)]_vars

\* a child whose time was up before the call is still among the children
\* (without lifetimeRnd a particle is not expired in the call that creates it)
C26_Witness ==
    /\ called = "EmitterEntity.emitParticles"
    /\ obj.lifetimeRnd = 0
    /\ obj.lifetime > 0
    /\ \E i \in 1 .. Len(obj.children) : Expired(obj.children[i], obj.now)

\* floor(rate / 1000 * ms since the last emission) for a call at time now
ClaimedCount(e, now) == (e.rate * (now - e.lastEmitTime)) \div 1000

CappedStep(before, after, count, added) ==
    /\ (before.maximum > 0 /\ Len(before.children) <= before.maximum)
          => Len(after.children) <= before.maximum
    /\ added >= 0
    /\ added <= count
    /\ count = 0 => after.lastEmitTime = before.lastEmitTime
    /\ count > 0 =>
          /\ after.lastEmitTime = after.now
          /\ added < count => (before.maximum > 0 /\ Len(after.children) >= before.maximum)

\* C27: an emitParticles call on an emitter with maximum > 0 and no more than
\* maximum children leaves no more than maximum children; it creates at most
\* floor(rate / 1000 * elapsed) particles, and as many as that unless the
\* emitter is full; when that count is 0 it leaves _lastEmitTime alone, so the
\* elapsed time of the next call is measured from the same instant, and when
\* it is positive _lastEmitTime becomes now.
C27_CappedEmission ==
    [][CappedStep(obj, obj', ClaimedCount(obj, obj'.now), obj'.emitted - obj.emitted)]_vars

\* an emitter of one particle per 4 ms, called more often than that, has
\* emitted, and is full
C27_Witness ==
    /\ called = "EmitterEntity.emitParticles"
    /\ obj.rate = 250
    /\ obj.maximum > 0
    /\ obj.emitted > 0
    /\ Len(obj.children) = obj.maximum

Unlimited(e) == e.lifetime = 0 /\ e.lifetimeRnd = 0

\* C28: a particle of an emitter with lifetime 0 and lifetimeRnd 0 is never
\* removed: every child before a step is a child after it.
C28_UnlimitedLifetime ==
    [][Unlimited(obj) => \A i \in 1 .. Len(obj.children) :
                            obj.children[i] \in Range(obj'.children)]_vars

\* what the code does: the particle's _gravetime is the clock reading of the
\* call that created it, not 0, so it is due as soon as the clock has moved
C28_GraveTimeIsCreationTime ==
    (called = "EmitterEntity.emitParticles" /\ Unlimited(obj)) =>
       \A i \in 1 .. Len(obj.children) :
          obj.children[i].gravetime # 0 /\ obj.children[i].gravetime <= obj.now

\* an emitter with lifetime 0 has lost a particle it had emitted
C28_Witness ==
    /\ called = "EmitterEntity.emitParticles"
    /\ Unlimited(obj)
    /\ obj.emitted > 0
    /\ \A i \in 1 .. Len(obj.children) : obj.children[i].id # 1

-----------------------------------------------------------------------------
(***************************************************************************)
(* Phoria.PhysicsEntity: impulse, force and applyPhysics.  obj is the      *)
(* entity: velocity, _force, _acceleration (null or the pending impulse),  *)
(* the gravity flag, the translation of its matrix (which has no rotation) *)
(* and, for the record, the number of applyPhysics and impulse calls made  *)
(* and the number of applyPhysics calls before the last impulse call.      *)
(***************************************************************************)
MaxCalls == 2

VAdd(a, b) == <<a[1] \oplus b[1], a[2] \oplus b[2], a[3] \oplus b[3]>>
VScale(a, k) == <<a[1] \otimes k, a[2] \otimes k, a[3] \otimes k>>

\* Phoria.PhysicsEntity.GRAVITY
GRAVITY == <<RZero, Rat(-98, 10), RZero>>

\* applyPhysics without this._acceleration = null
ApplyImpulseKeep(e, tt) ==
    IF e.acceleration # Null
    THEN [e EXCEPT !.velocity = VAdd(e.velocity, VScale(e.acceleration, tt))]
    ELSE e

\* apply impulse force
ApplyImpulse(e, tt) ==
    IF e.acceleration # Null
    THEN [e EXCEPT !.velocity = VAdd(e.velocity, VScale(e.acceleration, tt)),
                   !.acceleration = Null]
    ELSE e

\* apply constant force
ApplyForce(e, tt) ==
    IF e.force # Null
    THEN [e EXCEPT !.velocity = VAdd(e.velocity, VScale(e.force, tt))]
    ELSE e

\* apply constant gravity if activated
ApplyGravity(e, tt) ==
    IF e.gravity
    THEN [e EXCEPT !.velocity = VAdd(e.velocity, VScale(GRAVITY, tt))]
    ELSE e

\* this.translate(vec3.fromXYZ(this.velocity))
Translate(e) == [e EXCEPT !.translation = VAdd(e.translation, e.velocity)]

applyPhysics(e, time) ==
    Translate(ApplyGravity(ApplyForce(ApplyImpulse(e, time \otimes time),
                                      time \otimes time),
                           time \otimes time))

Forces == {V3(1, 0, 0), V3(0, 2, -1)}
Times == {RZero, RInt(1), Rat(1, 2)}

\* a new PhysicsEntity, its gravity flag as the application has set it
PhysicsInit ==
    /\ RasterIdle
    /\ SortIdle
    /\ LightIdle
    /\ camera = Null
    /\ poly = Null
    /\ ctxlog = <<>>
    /\ called = "none"
    /\ returned = "none"
    /\ args = <<>>
    /\ renderer = "none"
    /\ \E gravity \in BOOLEAN :
         obj = [velocity |-> V3(0, 0, 0), force |-> V3(0, 0, 0), acceleration |-> Null,
                gravity |-> gravity, translation |-> V3(0, 0, 0),
                calls |-> 0, impulses |-> 0, impulseAt |-> 0]

\* PhysicsEntity.impulse(f)
Impulse ==
    /\ obj.impulses < MaxCalls
    /\ \E f \in Forces :
         /\ obj' = [obj EXCEPT !.acceleration = f, !.impulses = obj.impulses + 1,
                               !.impulseAt = obj.calls]
         /\ args' = <<f>>
    /\ called' = "PhysicsEntity.impulse"
    /\ UNCHANGED <<camera, poly, ctxlog, returned, renderer,
                   rasterVars, sortVars, lightVars>>

\* PhysicsEntity.force(f)
Force ==
    /\ \E f \in Forces \cup {V3(0, 0, 0)} :
         /\ f # obj.force
         /\ obj' = [obj EXCEPT !.force = f]
         /\ args' = <<f>>
    /\ called' = "PhysicsEntity.force"
    /\ UNCHANGED <<camera, poly, ctxlog, returned, renderer,
                   rasterVars, sortVars, lightVars>>

\* the application sets entity.gravity
SetGravity ==
    /\ obj' = [obj EXCEPT !.gravity = ~obj.gravity]
    /\ args' = <<>>
    /\ called' = "PhysicsEntity.gravity"
    /\ UNCHANGED <<camera, poly, ctxlog, returned, renderer,
                   rasterVars, sortVars, lightVars>>

\* the scene calls applyPhysics with the frame's time
ApplyPhysics ==
    /\ obj.calls < MaxCalls
    /\ \E time \in Times :
         /\ obj' = [applyPhysics(obj, time) EXCEPT !.calls = obj.calls + 1]
         /\ args' = <<time>>
    /\ called' = "PhysicsEntity.applyPhysics"
    /\ UNCHANGED <<camera, poly, ctxlog, returned, renderer,
                   rasterVars, sortVars, lightVars>>

PhysicsNext ==
    \/ Impulse
    \/ Force
    \/ SetGravity
    \/ ApplyPhysics

SpecPhysics == PhysicsInit /\ [][PhysicsNext]_vars

(***************************************************************************)
(* Properties of the physics step                                          *)
(***************************************************************************)
\* the velocity after an applyPhysics call with the given time: the pending
\* impulse, the force and, with the flag set, gravity, each times time^2
ClaimedVelocity(e, time) ==
    VAdd(VAdd(VAdd(e.velocity,
                   IF e.acceleration # Null THEN VScale(e.acceleration, time \otimes time)
                                            ELSE V3(0, 0, 0)),
              VScale(e.force, time \otimes time)),
         IF e.gravity THEN VScale(<<RZero, Rat(-49, 5), RZero>>, time \otimes time)
                      ELSE V3(0, 0, 0))

\* C29: an applyPhysics call adds the pending impulse times time^2 to the
\* velocity, if there is one, and clears it, so that the calls after it add
\* nothing for it; it adds the force times time^2 and leaves the force in
\* place; it adds gravity times time^2 if and only if the gravity flag is
\* set.  impulse(f) and force(f) store f and leave the velocity alone.
C29_ImpulseOnceForceAlways ==
    [][/\ called' = "PhysicsEntity.applyPhysics" /\ obj'.calls > obj.calls =>
             /\ obj'.velocity = ClaimedVelocity(obj, args'[1])
             /\ obj'.acceleration = Null
             /\ obj'.force = obj.force
             /\ obj'.gravity = obj.gravity
       /\ called' = "PhysicsEntity.impulse" /\ obj' # obj =>
             /\ obj'.acceleration = args'[1]
             /\ obj'.velocity = obj.velocity
             /\ obj'.force = obj.force
       /\ called' = "PhysicsEntity.force" /\ obj' # obj =>
             /\ obj'.force = args'[1]
             /\ obj'.velocity = obj.velocity
             /\ obj'.acceleration = obj.acceleration]_vars

\* two applyPhysics calls after one impulse, with no force and no gravity:
\* the velocity is the impulse times the square of the first call's time
C29_Witness ==
    /\ called = "PhysicsEntity.applyPhysics"
    /\ obj.calls = 2
    /\ obj.impulses = 1
    /\ obj.impulseAt = 0
    /\ obj.acceleration = Null
    /\ obj.force = V3(0, 0, 0)
    /\ ~obj.gravity
    /\ obj.velocity = VScale(V3(1, 0, 0), Rat(1, 4))
    /\ args = <<RInt(1)>>

====
